---- MODULE Spec2Model ----
(***************************************************************************)
(* ASC100 codec: charset versions, filter and encoding strategies, the     *)
(* sentinel tokenizer and the 7-bit / 6-bit packing engine.               *)
(*                                                                         *)
(* Characters are code points (integers); a string is a sequence of code   *)
(* points.  Arrays of the source ([char; 100], [u8; 128], [char; 64]) are   *)
(* functions on 0..N-1 so that indices read as in the source.              *)
(***************************************************************************)
EXTENDS Integers, Sequences, FiniteSets, TLC

VARIABLES version, strategy, input, pc, indices, encoded, decIndices, decoded

vars == <<version, strategy, input, pc, indices, encoded, decIndices, decoded>>

(***************************************************************************)
(* Bounds on the inputs.                                                  *)
(***************************************************************************)
\* an input is the concatenation of at most MaxPieces pieces of Pieces
MaxPieces == 3

(***************************************************************************)
(* u8 arithmetic                                                           *)
(***************************************************************************)
Pow2(k) == 2 ^ k

\* (x >> k) on u8
Shr(x, k) == x \div Pow2(k)

\* (x << k) on u8: the bits shifted out are lost
Shl(x, k) == (x * Pow2(k)) % 256

RECURSIVE BitAnd(_, _)
BitAnd(a, b) ==
    IF a = 0 \/ b = 0 THEN 0
    ELSE (a % 2) * (b % 2) + 2 * BitAnd(a \div 2, b \div 2)

RECURSIVE BitOr(_, _)
BitOr(a, b) ==
    IF a = 0 THEN b
    ELSE IF b = 0 THEN a
    ELSE (IF a % 2 = 1 \/ b % 2 = 1 THEN 1 ELSE 0) + 2 * BitOr(a \div 2, b \div 2)

(***************************************************************************)
(* char/charset.rs: charset construction                                   *)
(***************************************************************************)
\* The loop `while ascii <= 126 { chars[idx] = ascii; idx += 1; ascii += 1 }`
\* writes 32 + idx at idx = 0..94; the five assignments that follow write
\* 95..99.  Every slot is written exactly once.
create_base_charset ==
    [idx \in 0..99 |->
        IF idx <= 94 THEN 32 + idx
        ELSE CASE idx = 95 -> 9
               [] idx = 96 -> 10
               [] idx = 97 -> 13
               [] idx = 98 -> 0
               [] idx = 99 -> 1]

\* variant: no temporary, so chars[idx2] is assigned the value chars[idx1]
\* holds after it was overwritten
swap_chars_no_temp(chars, idx1, idx2) ==
    [chars EXCEPT ![idx1] = chars[idx2], ![idx2] = chars[idx2]]

swap_chars(chars, idx1, idx2) ==
    LET temp == chars[idx1]
    IN  [chars EXCEPT ![idx1] = chars[idx2], ![idx2] = temp]

RECURSIVE SwapRangesLoop(_, _, _, _, _)
\* the loop `while i < r1_len { swap chars[r1_start+i], chars[r2_start+i] }`
SwapRangesLoop(chars, r1_start, r1_len, r2_start, i) ==
    IF i < r1_len
    THEN LET temp == chars[r1_start + i]
             c1   == [chars EXCEPT ![r1_start + i] = chars[r2_start + i]]
             c2   == [c1 EXCEPT ![r2_start + i] = temp]
         IN  SwapRangesLoop(c2, r1_start, r1_len, r2_start, i + 1)
    ELSE chars

\* callers always pass r1_len = r2_len (the source panics otherwise)
swap_ranges(chars, r1_start, r1_len, r2_start, r2_len) ==
    SwapRangesLoop(chars, r1_start, r1_len, r2_start, 0)

\* the slots of arr (indexed 0..n-1) that hold code point ch
SlotsOf(arr, n, ch) == {i \in 0..(n - 1) : arr[i] = ch}

LastOf(S) == CHOOSE k \in S : \A j \in S : j <= k

\* variant: the loop stops at `i < 99` and never records the last slot
build_lookup_table_short(charset) ==
    [ascii \in 0..127 |->
        IF SlotsOf(charset, 99, ascii) = {} THEN 255
        ELSE LastOf(SlotsOf(charset, 99, ascii))]

\* The loop `while i < 100 { if ascii < 128 { table[ascii] = i as u8 } }` over
\* a table initialised to 255: a slot keeps 255 unless some charset[i] is its
\* code point, and the last such i, written last, stays.
build_lookup_table(charset) ==
    [ascii \in 0..127 |->
        IF SlotsOf(charset, 100, ascii) = {} THEN 255
        ELSE LastOf(SlotsOf(charset, 100, ascii))]

\* 'A'..'Z', 'a'..'z', '0'..'9', '+', '/'
BASE64_CHARS ==
    [v \in 0..63 |->
        IF v < 26 THEN 65 + v
        ELSE IF v < 52 THEN 97 + (v - 26)
        ELSE IF v < 62 THEN 48 + (v - 52)
        ELSE IF v = 62 THEN 43
        ELSE 47]

\* variant: '=' is accepted as a padding symbol of value 0
build_base64_lookup_pad ==
    [ascii \in 0..127 |->
        IF ascii = 61 THEN 0
        ELSE IF SlotsOf(BASE64_CHARS, 64, ascii) = {} THEN 255
        ELSE LastOf(SlotsOf(BASE64_CHARS, 64, ascii))]

\* the same loop over BASE64_CHARS: `while i < 64 { table[ch] = i as u8 }`
build_base64_lookup ==
    [ascii \in 0..127 |->
        IF SlotsOf(BASE64_CHARS, 64, ascii) = {} THEN 255
        ELSE LastOf(SlotsOf(BASE64_CHARS, 64, ascii))]

BASE64_LOOKUP == build_base64_lookup

\* variant: #X# is given the code of #E# (105), so two names share one code
MARKERS_x_reuses_e ==
    << << <<35, 73, 78, 86, 35>>, 100 >>,
       << <<35, 69, 79, 70, 35>>, 101 >>,
       << <<35, 78, 76, 35>>,     102 >>,
       << <<35, 86, 35>>,         103 >>,
       << <<35, 81, 35>>,         104 >>,
       << <<35, 69, 35>>,         105 >>,
       << <<35, 88, 35>>,         105 >>,
       << <<35, 83, 83, 88, 35>>, 107 >>,
       << <<35, 69, 83, 88, 35>>, 108 >>,
       << <<35, 77, 69, 77, 35>>, 109 >>,
       << <<35, 67, 84, 88, 35>>, 110 >>,
       << <<35, 70, 88, 35>>,     111 >>,
       << <<35, 65, 82, 71, 35>>, 112 >>,
       << <<35, 84, 82, 35>>,     113 >>,
       << <<35, 68, 78, 84, 35>>, 114 >>,
       << <<35, 66, 82, 75, 35>>, 115 >>,
       << <<35, 72, 83, 79, 35>>, 116 >>,
       << <<35, 72, 83, 73, 35>>, 117 >>,
       << <<35, 65, 67, 75, 35>>, 118 >> >>

\* (marker string, marker index), in table order
MARKERS ==
    << << <<35, 73, 78, 86, 35>>, 100 >>,   \* #INV#
       << <<35, 69, 79, 70, 35>>, 101 >>,   \* #EOF#
       << <<35, 78, 76, 35>>,     102 >>,   \* #NL#
       << <<35, 86, 35>>,         103 >>,   \* #V#
       << <<35, 81, 35>>,         104 >>,   \* #Q#
       << <<35, 69, 35>>,         105 >>,   \* #E#
       << <<35, 88, 35>>,         106 >>,   \* #X#
       << <<35, 83, 83, 88, 35>>, 107 >>,   \* #SSX#
       << <<35, 69, 83, 88, 35>>, 108 >>,   \* #ESX#
       << <<35, 77, 69, 77, 35>>, 109 >>,   \* #MEM#
       << <<35, 67, 84, 88, 35>>, 110 >>,   \* #CTX#
       << <<35, 70, 88, 35>>,     111 >>,   \* #FX#
       << <<35, 65, 82, 71, 35>>, 112 >>,   \* #ARG#
       << <<35, 84, 82, 35>>,     113 >>,   \* #TR#
       << <<35, 68, 78, 84, 35>>, 114 >>,   \* #DNT#
       << <<35, 66, 82, 75, 35>>, 115 >>,   \* #BRK#
       << <<35, 72, 83, 79, 35>>, 116 >>,   \* #HSO#
       << <<35, 72, 83, 73, 35>>, 117 >>,   \* #HSI#
       << <<35, 65, 67, 75, 35>>, 118 >> >> \* #ACK#

(***************************************************************************)
(* char/versions.rs: the four versions                                     *)
(***************************************************************************)
create_v1_standard == swap_chars(create_base_charset, 0, 94)

create_v2_numbers_first == swap_ranges(create_base_charset, 0, 10, 16, 10)

create_v3_lowercase_first == swap_ranges(create_base_charset, 0, 26, 65, 26)

create_v4_url_optimized ==
    LET base1 == swap_ranges(create_base_charset, 0, 26, 65, 26)
    IN  swap_ranges(base1, 26, 10, 42, 10)

V1_STANDARD ==
    [name |-> "v1_standard", charset |-> create_v1_standard,
     lookup |-> build_lookup_table(create_v1_standard)]

V2_NUMBERS ==
    [name |-> "v2_numbers_first", charset |-> create_v2_numbers_first,
     lookup |-> build_lookup_table(create_v2_numbers_first)]

V3_LOWERCASE ==
    [name |-> "v3_lowercase_first", charset |-> create_v3_lowercase_first,
     lookup |-> build_lookup_table(create_v3_lowercase_first)]

V4_URL ==
    [name |-> "v4_url_optimized", charset |-> create_v4_url_optimized,
     lookup |-> build_lookup_table(create_v4_url_optimized)]

Versions == {V1_STANDARD, V2_NUMBERS, V3_LOWERCASE, V4_URL}

VersionNames == {v.name : v \in Versions}

\* the version value a name denotes
VersionOf(name) == CHOOSE v \in Versions : v.name = name

(***************************************************************************)
(* lib.rs: results and errors                                              *)
(***************************************************************************)
\* Result<String, Asc100Error> (val also carries a Vec<u8> of indices or bits)
Ok(v) == [ok |-> TRUE, err |-> "", arg |-> 0, val |-> v]

\* Err(Asc100Error::kind(arg)); an error carries no string
Err(kind, a) == [ok |-> FALSE, err |-> kind, arg |-> a, val |-> <<>>]

None == [ok |-> FALSE, err |-> "none", arg |-> 0, val |-> <<>>]

(***************************************************************************)
(* char/extensions.rs: filter strategies                                   *)
(***************************************************************************)
Keep == [tag |-> "Keep", str |-> <<>>, ch |-> 0]

Replace(s) == [tag |-> "Replace", str |-> s, ch |-> 0]

Skip == [tag |-> "Skip", str |-> <<>>, ch |-> 0]

Error(c) == [tag |-> "Error", str |-> <<>>, ch |-> c]

\* variant: the range test is `ascii <= 127`, so DEL counts as valid
InBaseRange_through_del(ascii) ==
    ascii < 128 /\ ((ascii >= 32 /\ ascii <= 127) \/ ascii \in {9, 10, 13, 0, 1})

\* ascii < 128 && (ascii >= 32 && ascii <= 126 || matches!(ascii, 9|10|13|0|1))
InBaseRange(ascii) ==
    ascii < 128 /\ ((ascii >= 32 /\ ascii <= 126) \/ ascii \in {9, 10, 13, 0, 1})

\* variant: the Strict filter drops an invalid character instead of failing
StrictFilter_handle_char_skip(ch) ==
    IF InBaseRange(ch) THEN Keep ELSE Skip

StrictFilter_handle_char(ch) ==
    IF InBaseRange(ch) THEN Keep ELSE Error(ch)

\* variant: the Sanitize filter replaces an invalid character by "?"
SanitizeFilter_handle_char_qmark(ch) ==
    IF InBaseRange(ch) THEN Keep ELSE Replace(<<63>>)

SanitizeFilter_handle_char(ch) ==
    IF InBaseRange(ch) THEN Keep ELSE Replace(<<35, 73, 78, 86, 35>>)

\* variant: the Strip filter keeps the printable characters only, and drops
\* tab, line feed, carriage return, NUL and SOH
StripFilter_handle_char_printable(ch) ==
    IF ch >= 32 /\ ch <= 126 THEN Keep ELSE Skip

\* variant: the Strip filter keeps every ASCII character, DEL included
StripFilter_handle_char_ascii(ch) ==
    IF ch < 128 THEN Keep ELSE Skip

StripFilter_handle_char(ch) ==
    IF InBaseRange(ch) THEN Keep ELSE Skip

\* dynamic dispatch of FilterStrategy::handle_char
handle_char(filter, ch) ==
    CASE filter = "Strict"   -> StrictFilter_handle_char(ch)
      [] filter = "Sanitize" -> SanitizeFilter_handle_char(ch)
      [] filter = "Strip"    -> StripFilter_handle_char(ch)

RECURSIVE FilterLoop(_, _, _, _)
\* `for ch in input.chars() { match self.handle_char(ch) { ... } }`
FilterLoop(filter, inp, i, result) ==
    IF i > Len(inp) THEN Ok(result)
    ELSE LET ch  == inp[i]
             act == handle_char(filter, ch)
         IN  CASE act.tag = "Keep"    -> FilterLoop(filter, inp, i + 1, Append(result, ch))
               [] act.tag = "Replace" -> FilterLoop(filter, inp, i + 1, result \o act.str)
               [] act.tag = "Skip"    -> FilterLoop(filter, inp, i + 1, result)
               [] act.tag = "Error"   -> Err("InvalidCharacter", act.ch)

filter_input(filter, inp) == FilterLoop(filter, inp, 1, <<>>)

(***************************************************************************)
(* char/extensions.rs: encoding strategies                                 *)
(***************************************************************************)
Filters == {"Strict", "Sanitize", "Strip"}

Kinds == {"Core", "Extensions"}

\* CoreStrategy<F> { filter } and ExtensionsStrategy<F> { filter }
Strategies == [kind : Kinds, filter : Filters]

CoreStrict == [kind |-> "Core", filter |-> "Strict"]

ExtensionsStrict == [kind |-> "Extensions", filter |-> "Strict"]

preprocess(strat, inp) == filter_input(strat.filter, inp)

postprocess(strat, output) == output

\* variant: the Core policy accepts the marker codes too
supports_index_all(strat, index) == index <= 127

supports_index(strat, index) ==
    IF strat.kind = "Core" THEN index < 100 ELSE index <= 127

(***************************************************************************)
(* lib.rs: two-phase tokenization                                          *)
(***************************************************************************)
TextSentinel(t) == [kind |-> "Text", text |-> t, marker |-> 0]

MarkerSentinel(m) == [kind |-> "Marker", text |-> <<>>, marker |-> m]

\* variant: the closing '#' is pushed to the candidate but left unread, so it
\* opens the next candidate as well
CollectCandidate_keep_close(inp, pos, cand) ==
    LET closes == {p \in pos..Len(inp) : inp[p] = 35}
        close  == CHOOSE p \in closes : \A q \in closes : p <= q
    IN  IF closes = {} THEN <<cand \o SubSeq(inp, pos, Len(inp)), Len(inp) + 1>>
        ELSE <<cand \o SubSeq(inp, pos, close), close>>

\* variant: the loop breaks before pushing the closing '#', which is read
\* but not kept in the candidate
CollectCandidate_drop_close(inp, pos, cand) ==
    LET closes == {p \in pos..Len(inp) : inp[p] = 35}
        close  == CHOOSE p \in closes : \A q \in closes : p <= q
    IN  IF closes = {} THEN <<cand \o SubSeq(inp, pos, Len(inp)), Len(inp) + 1>>
        ELSE <<cand \o SubSeq(inp, pos, close - 1), close + 1>>

RECURSIVE CollectCandidate(_, _, _)
\* `while let Some(&next_ch) = chars.peek() { push(next); if next_ch == '#' { break } }`
\* pos is the position of the next unread character; returns <<candidate, pos>>
CollectCandidate(inp, pos, cand) ==
    IF pos > Len(inp) THEN <<cand, pos>>
    ELSE IF inp[pos] = 35 THEN <<Append(cand, inp[pos]), pos + 1>>
    ELSE CollectCandidate(inp, pos + 1, Append(cand, inp[pos]))

\* MARKERS.iter().find(|(marker_str, _)| *marker_str == &marker_candidate):
\* the positions of the entries with that name (the first one is found)
MarkerPositionsByName(cand) == {k \in 1..Len(MARKERS) : MARKERS[k][1] = cand}

FirstOf(S) == CHOOSE k \in S : \A j \in S : k <= j

RECURSIVE ParseLoop(_, _, _, _, _)
ParseLoop(inp, strat, pos, current_text, sentinels) ==
    IF pos > Len(inp)
    THEN IF current_text # <<>>
         THEN Append(sentinels, TextSentinel(current_text))
         ELSE sentinels
    ELSE LET ch == inp[pos]
         IN  IF ch = 35
             THEN LET col   == CollectCandidate(inp, pos + 1, <<35>>)
                      cand  == col[1]
                      next  == col[2]
                      found == MarkerPositionsByName(cand)
                  IN  IF found # {} /\ supports_index(strat, MARKERS[FirstOf(found)][2])
                      THEN ParseLoop(inp, strat, next, <<>>,
                               Append(IF current_text # <<>>
                                      THEN Append(sentinels, TextSentinel(current_text))
                                      ELSE sentinels,
                                      MarkerSentinel(MARKERS[FirstOf(found)][2])))
                      ELSE ParseLoop(inp, strat, next, current_text \o cand, sentinels)
             ELSE ParseLoop(inp, strat, pos + 1, Append(current_text, ch), sentinels)

parse_sentinels(inp, strat) == Ok(ParseLoop(inp, strat, 1, <<>>, <<>>))

(***************************************************************************)
(* lib.rs: strategy-based encoding                                         *)
(***************************************************************************)
RECURSIVE TextToIndices(_, _, _, _)
\* `for ch in text.chars() { ... indices.push(index) }`
TextToIndices(text, lookup, i, acc) ==
    IF i > Len(text) THEN Ok(acc)
    ELSE LET ascii == text[i]
         IN  IF ascii >= 128 THEN Err("NonAsciiInput", 0)
             ELSE IF lookup[ascii] = 255 THEN Err("InvalidCharacter", text[i])
             ELSE TextToIndices(text, lookup, i + 1, Append(acc, lookup[ascii]))

RECURSIVE SentinelsToIndices(_, _, _, _)
\* Phase 3: `for sentinel in sentinels { match sentinel { ... } }`
SentinelsToIndices(sentinels, lookup, k, acc) ==
    IF k > Len(sentinels) THEN Ok(acc)
    ELSE LET sentinel == sentinels[k]
         IN  IF sentinel.kind = "Text"
             THEN LET r == TextToIndices(sentinel.text, lookup, 1, acc)
                  IN  IF r.ok THEN SentinelsToIndices(sentinels, lookup, k + 1, r.val)
                      ELSE r
             ELSE SentinelsToIndices(sentinels, lookup, k + 1,
                                     Append(acc, sentinel.marker))

\* Phases 1-3 of encode_with_strategy: the local `indices`, or the error
encode_indices(inp, lookup, strat) ==
    LET filtered_input == preprocess(strat, inp)
    IN  IF ~filtered_input.ok THEN filtered_input
        ELSE LET sentinels == parse_sentinels(filtered_input.val, strat)
             IN  IF ~sentinels.ok THEN sentinels
                 ELSE SentinelsToIndices(sentinels.val, lookup, 1, <<>>)

\* variant: the 7 bits of an index are pushed least significant bit first
IndexBits_lsb_first(index) == [j \in 1..7 |-> BitAnd(Shr(index, j - 1), 1)]

\* `for i in (0..7).rev() { bits.push((index >> i) & 1) }`
IndexBits(index) == [j \in 1..7 |-> BitAnd(Shr(index, 7 - j), 1)]

RECURSIVE IndicesToBits(_, _, _)
IndicesToBits(idxs, k, bits) ==
    IF k > Len(idxs) THEN bits
    ELSE IndicesToBits(idxs, k + 1, bits \o IndexBits(idxs[k]))

\* variant: `6 - len % 6` zero bits are pushed, a whole group when the
\* length is already a multiple of 6
PadBits_full_group(bits) ==
    bits \o [j \in 1..(6 - (Len(bits) % 6)) |-> 0]

RECURSIVE PadBits(_)
\* `while bits.len() % 6 != 0 { bits.push(0) }`
PadBits(bits) ==
    IF Len(bits) % 6 # 0 THEN PadBits(Append(bits, 0)) ELSE bits

RECURSIVE ChunkValue(_, _, _, _)
\* `for (i, &bit) in chunk.iter().enumerate() { value |= bit << (width - 1 - i) }`
ChunkValue(chunk, width, i, value) ==
    IF i >= Len(chunk) THEN value
    ELSE ChunkValue(chunk, width, i + 1,
                    BitOr(value, Shl(chunk[i + 1], (width - 1) - i)))

\* bits.chunks(size): consecutive slices of `size` bits, the last one shorter
Chunks(bits, size) ==
    [c \in 1..((Len(bits) + size - 1) \div size) |->
        SubSeq(bits, (c - 1) * size + 1,
               IF c * size <= Len(bits) THEN c * size ELSE Len(bits))]

\* lines 140-163: indices to 7-bit binary, pad, pack into base64
pack_indices(idxs) ==
    LET bits   == PadBits(IndicesToBits(idxs, 1, <<>>))
        chunks == Chunks(bits, 6)
    IN  [c \in 1..Len(chunks) |-> BASE64_CHARS[ChunkValue(chunks[c], 6, 0, 0)]]

encode_with_strategy(inp, charset, lookup, strat) ==
    LET idxs == encode_indices(inp, lookup, strat)
    IN  IF ~idxs.ok THEN idxs ELSE Ok(pack_indices(idxs.val))

(***************************************************************************)
(* lib.rs: strategy-based decoding                                         *)
(***************************************************************************)
RECURSIVE Base64ToBits(_, _, _)
\* lines 171-188
Base64ToBits(enc, i, bits) ==
    IF i > Len(enc) THEN Ok(bits)
    ELSE LET ascii == enc[i]
         IN  IF ascii >= 128 THEN Err("InvalidBase64Character", enc[i])
             ELSE IF BASE64_LOOKUP[ascii] = 255
                  THEN Err("InvalidBase64Character", enc[i])
             ELSE Base64ToBits(enc, i + 1,
                      bits \o [j \in 1..6 |-> BitAnd(Shr(BASE64_LOOKUP[ascii], 6 - j), 1)])

RECURSIVE ExtractLoop(_, _, _)
\* lines 190-203: `for chunk in bits.chunks(7) { if chunk.len() == 7 { ... } }`
ExtractLoop(chunks, c, acc) ==
    IF c > Len(chunks) THEN acc
    ELSE IF Len(chunks[c]) = 7
         THEN LET index == ChunkValue(chunks[c], 7, 0, 0)
              IN  ExtractLoop(chunks, c + 1,
                              IF index <= 127 THEN Append(acc, index) ELSE acc)
         ELSE ExtractLoop(chunks, c + 1, acc)

\* variant: the trailing chunk shorter than 7 bits is read as an index too
extract_indices_keep_short(bits) ==
    [c \in 1..Len(Chunks(bits, 7)) |-> ChunkValue(Chunks(bits, 7)[c], 7, 0, 0)]

extract_indices(bits) == ExtractLoop(Chunks(bits, 7), 1, <<>>)

\* variant: the marker code is compared as an offset from 100, so no entry is
\* found and the marker decodes to the empty string
MarkerPositionsByIndex_offset(index) ==
    {k \in 1..Len(MARKERS) : MARKERS[k][2] = index - 100}

\* MARKERS.iter().find(|(_, marker_index)| *marker_index == index)
MarkerPositionsByIndex(index) == {k \in 1..Len(MARKERS) : MARKERS[k][2] = index}

RECURSIVE IndicesToText(_, _, _, _, _)
\* lines 205-225
IndicesToText(idxs, charset, strat, k, result) ==
    IF k > Len(idxs) THEN Ok(result)
    ELSE LET index == idxs[k]
         IN  IF index >= 100 /\ index <= 127
             THEN IF ~supports_index(strat, index)
                  THEN Err("InvalidIndex", index)
                  ELSE LET found == MarkerPositionsByIndex(index)
                           marker_str == IF found # {}
                                         THEN MARKERS[FirstOf(found)][1]
                                         ELSE <<>>
                       IN  IndicesToText(idxs, charset, strat, k + 1,
                                         result \o marker_str)
             ELSE IF index < 100
                  THEN IndicesToText(idxs, charset, strat, k + 1,
                                     Append(result, charset[index]))
                  ELSE Err("InvalidIndex", index)

\* lines 171-203 of decode_with_strategy: the local `indices`, or the error
decode_indices(enc) ==
    LET bits == Base64ToBits(enc, 1, <<>>)
    IN  IF ~bits.ok THEN bits ELSE Ok(extract_indices(bits.val))

decode_with_strategy(enc, charset, strat) ==
    LET idxs == decode_indices(enc)
    IN  IF ~idxs.ok THEN idxs
        ELSE LET result == IndicesToText(idxs.val, charset, strat, 1, <<>>)
             IN  IF ~result.ok THEN result
                 ELSE Ok(postprocess(strat, result.val))

(***************************************************************************)
(* char/charset.rs: marker pre- and post-processing of the legacy pair     *)
(***************************************************************************)
\* pat stands in s at position i
MatchesAt(s, pat, i) ==
    /\ i + Len(pat) - 1 <= Len(s)
    /\ SubSeq(s, i, i + Len(pat) - 1) = pat

RECURSIVE StrReplaceLoop(_, _, _, _, _)
\* str::replace: every non-overlapping match of pat, left to right
StrReplaceLoop(s, pat, rep, i, acc) ==
    IF i > Len(s) THEN acc
    ELSE IF MatchesAt(s, pat, i)
         THEN StrReplaceLoop(s, pat, rep, i + Len(pat), acc \o rep)
         ELSE StrReplaceLoop(s, pat, rep, i + 1, Append(acc, s[i]))

StrReplace(s, pat, rep) == StrReplaceLoop(s, pat, rep, 1, <<>>)

RECURSIVE SortByLenDesc(_, _)
\* sort_by_key(Reverse(marker.len())): stable, so equal lengths keep table order
SortByLenDesc(markers, n) ==
    IF n = 0 THEN <<>>
    ELSE LET HasLen(m) == Len(m[1]) = n
         IN  SelectSeq(markers, HasLen) \o SortByLenDesc(markers, n - 1)

MaxMarkerLen ==
    CHOOSE n \in {Len(MARKERS[k][1]) : k \in 1..Len(MARKERS)} :
        \A k \in 1..Len(MARKERS) : Len(MARKERS[k][1]) <= n

sorted_markers == SortByLenDesc(MARKERS, MaxMarkerLen)

RECURSIVE PreprocessLoop(_, _)
\* `result = result.replace(marker_str, &char::from(marker_index).to_string())`
PreprocessLoop(result, k) ==
    IF k > Len(sorted_markers) THEN result
    ELSE PreprocessLoop(StrReplace(result, sorted_markers[k][1],
                                   <<sorted_markers[k][2]>>), k + 1)

preprocess_markers(text) == PreprocessLoop(text, 1)

RECURSIVE PostprocessLoop(_, _)
\* `result = result.replace(&char::from(*marker_index).to_string(), marker_str)`
PostprocessLoop(result, k) ==
    IF k > Len(MARKERS) THEN result
    ELSE PostprocessLoop(StrReplace(result, <<MARKERS[k][2]>>, MARKERS[k][1]),
                         k + 1)

postprocess_markers(text) == PostprocessLoop(text, 1)

(***************************************************************************)
(* lib.rs: the legacy encode / decode pair                                 *)
(***************************************************************************)
RECURSIVE LegacyTextToIndices(_, _, _, _)
\* lines 242-261: a code point in 100..127 is used as the index directly,
\* any other one is looked up
LegacyTextToIndices(text, lookup, i, acc) ==
    IF i > Len(text) THEN Ok(acc)
    ELSE LET ascii == text[i]
         IN  IF ascii >= 128 THEN Err("NonAsciiInput", 0)
             ELSE IF ascii >= 100 /\ ascii <= 127
                  THEN LegacyTextToIndices(text, lookup, i + 1, Append(acc, ascii))
             ELSE IF lookup[ascii] = 255 THEN Err("InvalidCharacter", ascii)
             ELSE LegacyTextToIndices(text, lookup, i + 1,
                                      Append(acc, lookup[ascii]))

\* lines 237-261 of encode: the local `indices`, or the error
legacy_encode_indices(inp, lookup) ==
    LegacyTextToIndices(preprocess_markers(inp), lookup, 1, <<>>)

\* crate::encode; lines 263-285 pack as lines 140-161 do
encode(inp, charset, lookup) ==
    LET idxs == legacy_encode_indices(inp, lookup)
    IN  IF ~idxs.ok THEN idxs ELSE Ok(pack_indices(idxs.val))

RECURSIVE LegacyExtractLoop(_, _, _)
\* lines 310-322: `if chunk.len() == 7 { ... if index < 100 { indices.push(index) } }`
LegacyExtractLoop(chunks, c, acc) ==
    IF c > Len(chunks) THEN acc
    ELSE IF Len(chunks[c]) = 7
         THEN LET index == ChunkValue(chunks[c], 7, 0, 0)
              IN  LegacyExtractLoop(chunks, c + 1,
                                    IF index < 100 THEN Append(acc, index) ELSE acc)
         ELSE LegacyExtractLoop(chunks, c + 1, acc)

\* lines 291-322 of decode: the local `indices`, or the error
legacy_decode_indices(enc) ==
    LET bits == Base64ToBits(enc, 1, <<>>)
    IN  IF ~bits.ok THEN bits
        ELSE Ok(LegacyExtractLoop(Chunks(bits.val, 7), 1, <<>>))

RECURSIVE LegacyIndicesToText(_, _, _, _)
\* lines 324-336
LegacyIndicesToText(idxs, charset, k, result) ==
    IF k > Len(idxs) THEN Ok(result)
    ELSE LET index == idxs[k]
         IN  IF index >= 100 /\ index <= 127
             THEN LegacyIndicesToText(idxs, charset, k + 1, Append(result, index))
             ELSE IF index < 100
                  THEN LegacyIndicesToText(idxs, charset, k + 1,
                                           Append(result, charset[index]))
                  ELSE Err("InvalidIndex", index)

\* crate::decode
decode(enc, charset) ==
    LET idxs == legacy_decode_indices(enc)
    IN  IF ~idxs.ok THEN idxs
        ELSE LET result == LegacyIndicesToText(idxs.val, charset, 1, <<>>)
             IN  IF ~result.ok THEN result
                 ELSE Ok(postprocess_markers(result.val))

(***************************************************************************)
(* src_ref/asc100-rust-lib.rs: the reference codec                         *)
(***************************************************************************)
\* a HashMap is the set of its <<key, value>> pairs
EmptyExtension == [markers |-> {}, reverse_markers |-> {}]

\* ASCExtension::add_marker: HashMap::insert replaces the entry of the key;
\* an index outside 100..127 is refused (ExtensionOverflow)
add_marker(ext, marker, index) ==
    IF index < 100 \/ index > 127 THEN ext
    ELSE [markers |-> {p \in ext.markers : p[1] # marker}
                          \cup {<<marker, index>>},
          reverse_markers |-> {p \in ext.reverse_markers : p[1] # index}
                                  \cup {<<index, marker>>}]

\* ASCExtension::new: EOF, EOL, EOS, TAB, INDENT, DEDENT at 100..105
ASCExtension_new ==
    add_marker(
      add_marker(
        add_marker(
          add_marker(
            add_marker(
              add_marker(EmptyExtension, <<69, 79, 70>>, 100),
              <<69, 79, 76>>, 101),
            <<69, 79, 83>>, 102),
          <<84, 65, 66>>, 103),
        <<73, 78, 68, 69, 78, 84>>, 104),
      <<68, 69, 68, 69, 78, 84>>, 105)

\* (32u8..=126u8) followed by '\t', '\n', '\r', '\x00', '\x01'
ref_base_charset ==
    [i \in 0..99 |->
        IF i <= 94 THEN 32 + i
        ELSE IF i = 95 THEN 9
        ELSE IF i = 96 THEN 10
        ELSE IF i = 97 THEN 13
        ELSE IF i = 98 THEN 0
        ELSE 1]

\* `for (i, &ch) in base_charset.iter().enumerate() { char_to_index.insert(ch, i) }`
ref_char_to_index ==
    [ch \in {ref_base_charset[i] : i \in 0..99} |->
        LastOf(SlotsOf(ref_base_charset, 100, ch))]

\* the same 64 characters as BASE64_CHARS of char/charset.rs
ref_base64_to_index ==
    [ch \in {BASE64_CHARS[v] : v \in 0..63} |-> LastOf(SlotsOf(BASE64_CHARS, 64, ch))]

\* ASC100::with_extension
ASC100_with_extension(extension) ==
    [base_charset |-> ref_base_charset,
     char_to_index |-> ref_char_to_index,
     base64_to_index |-> ref_base64_to_index,
     extension |-> extension]

\* ASC100::new
ASC100_new == ASC100_with_extension(ASCExtension_new)

\* the orders in which iterating a HashMap can yield its entries: the order
\* is not specified, so every one is possible
IterationOrders(map) ==
    {s \in [1..Cardinality(map) -> map] : \A p \in map : \E i \in 1..Cardinality(map) : s[i] = p}

\* format!("#{marker}#")
marker_pattern(marker) == <<35>> \o marker \o <<35>>

MaxRefMarkerLen(map) ==
    CHOOSE n \in {Len(p[1]) : p \in map} : \A p \in map : Len(p[1]) <= n

\* the vectors `markers` can hold after `sort_by_key(Reverse(marker.len()))`
\* (a stable sort) of the iterated entries
SortedMarkerOrders(map) ==
    {SortByLenDesc(s, MaxRefMarkerLen(map)) : s \in IterationOrders(map)}

RECURSIVE RefPreprocessLoop(_, _, _)
\* `result = result.replace(&marker_pattern, &char::from(index).to_string())`
RefPreprocessLoop(result, markers, k) ==
    IF k > Len(markers) THEN result
    ELSE RefPreprocessLoop(
             StrReplace(result, marker_pattern(markers[k][1]), <<markers[k][2]>>),
             markers, k + 1)

\* ASC100::preprocess_text, with `markers` the sorted vector it iterates
preprocess_text(text, markers) == RefPreprocessLoop(text, markers, 1)

RECURSIVE RefPostprocessLoop(_, _, _)
\* `result = result.replace(&char::from(index).to_string(), &marker_pattern)`
RefPostprocessLoop(result, reverse, k) ==
    IF k > Len(reverse) THEN result
    ELSE RefPostprocessLoop(
             StrReplace(result, <<reverse[k][1]>>, marker_pattern(reverse[k][2])),
             reverse, k + 1)

\* ASC100::postprocess_text, with `reverse` the order in which
\* reverse_markers is iterated
postprocess_text(text, reverse) == RefPostprocessLoop(text, reverse, 1)

RECURSIVE RefTextToIndices(_, _, _, _)
\* lines 217-228; pos is the 0-based position reported with the error
RefTextToIndices(codec, processed, i, acc) ==
    IF i > Len(processed) THEN Ok(acc)
    ELSE LET ch == processed[i]
         IN  IF ch \in DOMAIN codec.char_to_index
             THEN RefTextToIndices(codec, processed, i + 1,
                                   Append(acc, codec.char_to_index[ch]))
             ELSE IF ch >= 100 /\ ch <= 127
                  THEN RefTextToIndices(codec, processed, i + 1, Append(acc, ch))
             ELSE Err("UnsupportedCharacter", <<ch, i - 1>>)

\* lines 210-228 of ASC100::encode: the local `indices`, or the error
ASC100_encode_indices(codec, inp, markers) ==
    IF inp = <<>> THEN Ok(<<>>)
    ELSE RefTextToIndices(codec, preprocess_text(inp, markers), 1, <<>>)

\* ASC100::encode; lines 230-252 pack as lines 140-161 of lib.rs do
ASC100_encode(codec, inp, markers) ==
    LET idxs == ASC100_encode_indices(codec, inp, markers)
    IN  IF inp = <<>> THEN Ok(<<>>)
        ELSE IF ~idxs.ok THEN idxs
        ELSE Ok(pack_indices(idxs.val))

RECURSIVE RefBase64ToBits(_, _, _, _)
\* lines 263-274
RefBase64ToBits(codec, enc, i, bits) ==
    IF i > Len(enc) THEN Ok(bits)
    ELSE IF enc[i] \in DOMAIN codec.base64_to_index
         THEN RefBase64ToBits(codec, enc, i + 1,
                  bits \o [j \in 1..6 |->
                              BitAnd(Shr(codec.base64_to_index[enc[i]], 6 - j), 1)])
         ELSE Err("InvalidEncodedCharacter", <<enc[i], i - 1>>)

\* lines 259-290 of ASC100::decode: the local `indices`, or the error; the
\* extraction is the one of lines 190-203 of lib.rs
ASC100_decode_indices(codec, enc) ==
    LET bits == RefBase64ToBits(codec, enc, 1, <<>>)
    IN  IF enc = <<>> THEN Ok(<<>>)
        ELSE IF ~bits.ok THEN bits
        ELSE Ok(extract_indices(bits.val))

RECURSIVE RefIndicesToText(_, _, _, _)
\* lines 292-306
RefIndicesToText(codec, idxs, k, result) ==
    IF k > Len(idxs) THEN Ok(result)
    ELSE IF idxs[k] < 100
         THEN IF idxs[k] \in DOMAIN codec.base_charset
              THEN RefIndicesToText(codec, idxs, k + 1,
                                    Append(result, codec.base_charset[idxs[k]]))
              ELSE Err("InvalidBinaryData", <<>>)
         ELSE RefIndicesToText(codec, idxs, k + 1, Append(result, idxs[k]))

\* ASC100::decode
ASC100_decode(codec, enc, reverse) ==
    LET idxs == ASC100_decode_indices(codec, enc)
    IN  IF enc = <<>> THEN Ok(<<>>)
        ELSE IF ~idxs.ok THEN idxs
        ELSE LET result == RefIndicesToText(codec, idxs.val, 1, <<>>)
             IN  IF ~result.ok THEN result
                 ELSE Ok(postprocess_text(result.val, reverse))

(***************************************************************************)
(* xstream_transformer.rs: the token-stream transformer                    *)
(***************************************************************************)
\* "_asc" and ":a"
KeySuffix == <<95, 97, 115, 99>>

ValueSuffix == <<58, 97>>

\* str::ends_with
ends_with(s, suffix) ==
    /\ Len(suffix) <= Len(s)
    /\ SubSeq(s, Len(s) - Len(suffix) + 1, Len(s)) = suffix

RECURSIVE trim_end_matches(_, _)
\* str::trim_end_matches: the suffix is removed as often as it matches
trim_end_matches(s, pat) ==
    IF ends_with(s, pat) THEN trim_end_matches(SubSeq(s, 1, Len(s) - Len(pat)), pat)
    ELSE s

\* the ASCII characters char::is_whitespace accepts
IsWhitespace(c) == c \in {9, 10, 11, 12, 13, 32}

RECURSIVE trim_start(_)
\* str::trim, the leading whitespace
trim_start(s) ==
    IF s # <<>> /\ IsWhitespace(Head(s)) THEN trim_start(Tail(s)) ELSE s

RECURSIVE trim_end(_)
\* str::trim, the trailing whitespace
trim_end(s) ==
    IF s # <<>> /\ IsWhitespace(s[Len(s)]) THEN trim_end(SubSeq(s, 1, Len(s) - 1))
    ELSE s

RECURSIVE SplitLoop(_, _, _, _, _)
SplitLoop(s, sep, i, cur, acc) ==
    IF i > Len(s) THEN Append(acc, cur)
    ELSE IF s[i] = sep THEN SplitLoop(s, sep, i + 1, <<>>, Append(acc, cur))
    ELSE SplitLoop(s, sep, i + 1, Append(cur, s[i]), acc)

\* str::split(char): the pieces between the separators, empty ones included
split(s, sep) == SplitLoop(s, sep, 1, <<>>, <<>>)

\* str::split_once(char): Ok(<<before, after>>) at the first separator, or None
split_once(s, sep) ==
    LET at == {i \in 1..Len(s) : s[i] = sep}
        first == CHOOSE i \in at : \A j \in at : i <= j
    IN  IF at = {} THEN None
        ELSE Ok(<<SubSeq(s, 1, first - 1), SubSeq(s, first + 1, Len(s))>>)

RECURSIVE join(_, _)
\* [String]::join
join(tokens, sep) ==
    IF tokens = <<>> THEN <<>>
    ELSE IF Len(tokens) = 1 THEN tokens[1]
    ELSE tokens[1] \o sep \o join(Tail(tokens), sep)

\* Asc100Transformer::core / ::extensions
Asc100Transformer_core(mode) == [strategy |-> CoreStrict, mode |-> mode]

Asc100Transformer_extensions(mode) == [strategy |-> ExtensionsStrict, mode |-> mode]

\* Asc100Transformer::encode_value
encode_value(self, value) ==
    encode_with_strategy(value, V1_STANDARD.charset, V1_STANDARD.lookup, self.strategy)

\* Asc100Transformer::is_encoded
is_encoded(key, value) == ends_with(key, KeySuffix) \/ ends_with(value, ValueSuffix)

\* Asc100Transformer::extract_encoded_parts
extract_encoded_parts(key, value) ==
    << IF ends_with(key, KeySuffix) THEN trim_end_matches(key, KeySuffix) ELSE key,
       IF ends_with(value, ValueSuffix) THEN trim_end_matches(value, ValueSuffix)
       ELSE value >>

\* lines 87-89: the `?` on the decoder's result, then `Ok((clean_key, decoded))`
DecodedParts(clean_key, result) ==
    IF ~result.ok THEN result ELSE Ok(<<clean_key, result.val>>)

\* Asc100Transformer::try_decode_value
try_decode_value(self, key, value) ==
    IF ~is_encoded(key, value) THEN Ok(<<key, value>>)
    ELSE DecodedParts(extract_encoded_parts(key, value)[1],
                      decode_with_strategy(extract_encoded_parts(key, value)[2],
                                           V1_STANDARD.charset, self.strategy))

\* the `?` on the encoder's result, then `Ok((format!("{}_asc", key), encoded))`
\* or `Ok((key.to_string(), format!("{}:a", encoded)))`
MarkedPair(key, key_mark, enc, value_mark) ==
    IF ~enc.ok THEN enc ELSE Ok(<<key \o key_mark, enc.val \o value_mark>>)

\* the arm of EncodeKeyMarked, also the else arm of Bidirectional
EncodeKeyMarkedArm(self, key, value) ==
    MarkedPair(key, KeySuffix, encode_value(self, value), <<>>)

\* Asc100Transformer::transform_value
transform_value(self, key, value) ==
    CASE self.mode = "EncodeKeyMarked" -> EncodeKeyMarkedArm(self, key, value)
      [] self.mode = "EncodeValueMarked" ->
            MarkedPair(key, <<>>, encode_value(self, value), ValueSuffix)
      [] self.mode = "Decode" -> try_decode_value(self, key, value)
      [] self.mode = "Bidirectional" ->
            IF is_encoded(key, value) THEN try_decode_value(self, key, value)
            ELSE EncodeKeyMarkedArm(self, key, value)

RECURSIVE TransformLoop(_, _, _, _)
\* lines 136-137: the `?` on the transformed pair, then
\* `result_tokens.push(format!("{}={}", transformed_key, transformed_value))`
PushToken(pieces, transformer, k, result_tokens, tr) ==
    IF ~tr.ok THEN tr
    ELSE TransformLoop(pieces, transformer, k + 1,
                       Append(result_tokens, tr.val[1] \o <<61>> \o tr.val[2]))

\* lines 133-136: the `?` on split_once('='), then transform_value on the pair
TransformPair(pieces, transformer, k, result_tokens, kv) ==
    IF ~kv.ok THEN Err("TokenMustContainEq", 0)
    ELSE PushToken(pieces, transformer, k, result_tokens,
                   transform_value(transformer, kv.val[1], kv.val[2]))

\* lines 131-134: `if token_str.is_empty() { continue; }`, then split_once('=')
TransformToken(pieces, transformer, k, result_tokens, token_str) ==
    IF token_str = <<>>
    THEN TransformLoop(pieces, transformer, k + 1, result_tokens)
    ELSE TransformPair(pieces, transformer, k, result_tokens,
                       split_once(token_str, 61))

\* lines 129-138: the loop over input.split(';')
TransformLoop(pieces, transformer, k, result_tokens) ==
    IF k > Len(pieces) THEN Ok(result_tokens)
    ELSE TransformToken(pieces, transformer, k, result_tokens,
                        trim_end(trim_start(pieces[k])))

\* pipeline::transform_stream
transform_stream(inp, transformer) ==
    LET tokens == TransformLoop(split(inp, 59), transformer, 1, <<>>)
    IN  IF ~tokens.ok THEN tokens ELSE Ok(join(tokens.val, <<59, 32>>))

\* transformers::encoder_key, decoder, extensions_encoder, extensions_decoder
encoder_key == Asc100Transformer_core("EncodeKeyMarked")

decoder == Asc100Transformer_core("Decode")

extensions_encoder == Asc100Transformer_extensions("EncodeKeyMarked")

extensions_decoder == Asc100Transformer_extensions("Decode")

(***************************************************************************)
(* The callers: a caller picks a version, a strategy and a text, encodes   *)
(* it, and decodes what encoding returned with the same version and        *)
(* strategy.                                                               *)
(***************************************************************************)
\* '#', ' ', 'a', tab, DEL (ASCII, outside the base range), U+0080 (not
\* ASCII), and the marker names #V#, #EOF# and #INV#
Pieces ==
    { <<35>>, <<32>>, <<97>>, <<9>>, <<127>>, <<128>>,
      <<35, 86, 35>>, <<35, 69, 79, 70, 35>>, <<35, 73, 78, 86, 35>> }

RECURSIVE Concat(_)
Concat(seqs) == IF seqs = <<>> THEN <<>> ELSE Head(seqs) \o Concat(Tail(seqs))

Inputs == UNION { {Concat(ps) : ps \in [1..n -> Pieces]} : n \in 0..MaxPieces }

Init ==
    /\ version \in VersionNames
    /\ strategy \in Strategies
    /\ input \in Inputs
    /\ pc = "ready"
    /\ indices = <<>>
    /\ encoded = None
    /\ decIndices = <<>>
    /\ decoded = None

\* encode_with_strategy(input, &v.charset, &v.lookup, &strategy)
Encode ==
    /\ pc = "ready"
    /\ LET v == VersionOf(version)
           idxs == encode_indices(input, v.lookup, strategy)
       IN  /\ indices' = idxs.val
           /\ encoded' = encode_with_strategy(input, v.charset, v.lookup, strategy)
    /\ pc' = "encoded"
    /\ UNCHANGED <<version, strategy, input, decIndices, decoded>>

\* decode_with_strategy(&encoded, &v.charset, &strategy) on an Ok(encoded)
Decode ==
    /\ pc = "encoded"
    /\ encoded.ok
    /\ LET v == VersionOf(version)
           idxs == decode_indices(encoded.val)
       IN  /\ decIndices' = idxs.val
           /\ decoded' = decode_with_strategy(encoded.val, v.charset, strategy)
    /\ pc' = "decoded"
    /\ UNCHANGED <<version, strategy, input, indices, encoded>>

Next == Encode \/ Decode

Spec == Init /\ [][Next]_vars

\* a caller that encodes a text and keeps the result
SpecEncodeOnly == Init /\ [][Encode]_vars

(***************************************************************************)
(* The legacy callers: Asc100Version::encode and Asc100Version::decode     *)
(* (char/versions.rs) on a text; no strategy is involved.                  *)
(***************************************************************************)
\* the legacy pair takes no strategy
NoStrategy == [kind |-> "none", filter |-> "none"]

\* '#', ' ', '~', "hello", U+0080, the marker names #V# and #EOF#, and the
\* fake marker #FAKE#
LegacyPieces ==
    { <<35>>, <<32>>, <<126>>, <<104, 101, 108, 108, 111>>, <<128>>,
      <<35, 86, 35>>, <<35, 69, 79, 70, 35>>, <<35, 70, 65, 75, 69, 35>> }

LegacyInputs ==
    UNION { {Concat(ps) : ps \in [1..n -> LegacyPieces]} : n \in 0..MaxPieces }

InitLegacy ==
    /\ version \in VersionNames
    /\ strategy = NoStrategy
    /\ input \in LegacyInputs
    /\ pc = "ready"
    /\ indices = <<>>
    /\ encoded = None
    /\ decIndices = <<>>
    /\ decoded = None

\* Asc100Version::encode: crate::encode(input, &self.charset, &self.lookup)
LegacyEncode ==
    /\ pc = "ready"
    /\ LET v == VersionOf(version)
       IN  /\ indices' = legacy_encode_indices(input, v.lookup).val
           /\ encoded' = encode(input, v.charset, v.lookup)
    /\ pc' = "encoded"
    /\ UNCHANGED <<version, strategy, input, decIndices, decoded>>

\* Asc100Version::decode: crate::decode(encoded, &self.charset)
LegacyDecode ==
    /\ pc = "encoded"
    /\ encoded.ok
    /\ LET v == VersionOf(version)
       IN  /\ decIndices' = legacy_decode_indices(encoded.val).val
           /\ decoded' = decode(encoded.val, v.charset)
    /\ pc' = "legacy_decoded"
    /\ UNCHANGED <<version, strategy, input, indices, encoded>>

NextLegacy == LegacyEncode \/ LegacyDecode

SpecLegacy == InitLegacy /\ [][NextLegacy]_vars

(***************************************************************************)
(* The receivers: a caller holds a string it did not encode itself and     *)
(* decodes it, with a strategy or with the legacy decode.                  *)
(***************************************************************************)
MaxWireLen == 3

\* 'A' (value 0), 'g' (32), 'z' (51), '7' (59), '/' (63), and three
\* characters outside the packing alphabet: '=', ' ' and U+0080
WireSymbols == {65, 103, 122, 55, 47, 61, 32, 128}

Wires == UNION { [1..n -> WireSymbols] : n \in 0..MaxWireLen }

InitWire ==
    /\ version \in VersionNames
    /\ strategy \in Strategies
    /\ input = <<>>
    /\ pc = "encoded"
    /\ indices = <<>>
    /\ encoded \in {Ok(w) : w \in Wires}
    /\ decIndices = <<>>
    /\ decoded = None

NextWire == Decode \/ LegacyDecode

SpecWire == InitWire /\ [][NextWire]_vars

(***************************************************************************)
(* The callers of the reference codec: ASC100::new(), encode, decode, as   *)
(* ASC100::test_round_trip does.                                           *)
(***************************************************************************)
MaxRefPieces == 2

\* '#', ' ', 'd', 'H', U+0080, and the markers #EOF#, #TAB# and #INDENT#
RefPieces ==
    { <<35>>, <<32>>, <<100>>, <<72>>, <<128>>,
      <<35, 69, 79, 70, 35>>, <<35, 84, 65, 66, 35>>,
      <<35, 73, 78, 68, 69, 78, 84, 35>> }

RefInputs ==
    UNION { {Concat(ps) : ps \in [1..n -> RefPieces]} : n \in 0..MaxRefPieces }

\* the sorted vectors preprocess_text can iterate for the default extension
RefMarkerVectors == SortedMarkerOrders(ASC100_new.extension.markers)

\* the orders in which postprocess_text can iterate reverse_markers
RefReverseOrders == IterationOrders(ASC100_new.extension.reverse_markers)

InitRef ==
    /\ version = "reference"
    /\ strategy = NoStrategy
    /\ input \in RefInputs
    /\ pc = "ready"
    /\ indices = <<>>
    /\ encoded = None
    /\ decIndices = <<>>
    /\ decoded = None

\* codec.encode(input)
RefEncode ==
    /\ pc = "ready"
    /\ \E markers \in RefMarkerVectors :
          /\ indices' = ASC100_encode_indices(ASC100_new, input, markers).val
          /\ encoded' = ASC100_encode(ASC100_new, input, markers)
    /\ pc' = "encoded"
    /\ UNCHANGED <<version, strategy, input, decIndices, decoded>>

\* codec.decode(&encoded) on an Ok(encoded)
RefDecode ==
    /\ pc = "encoded"
    /\ encoded.ok
    /\ decIndices' = ASC100_decode_indices(ASC100_new, encoded.val).val
    /\ \E reverse \in RefReverseOrders :
          decoded' = ASC100_decode(ASC100_new, encoded.val, reverse)
    /\ pc' = "ref_decoded"
    /\ UNCHANGED <<version, strategy, input, indices, encoded>>

NextRef == RefEncode \/ RefDecode

SpecRef == InitRef /\ [][NextRef]_vars

(***************************************************************************)
(* Concurrent callers: two threads share one version and one strategy      *)
(* value and each runs encode_with_strategy and then decode_with_strategy  *)
(* on its own text, call after call.  Here every variable but version and  *)
(* strategy holds one slot per thread, the locals of that thread's call;   *)
(* a step of a call is atomic, the steps of the two threads interleave.    *)
(***************************************************************************)
Threads == {1, 2}

MaxConcPieces == 1

\* '#', 'a', U+0080 and the marker name #V#
ConcPieces == { <<35>>, <<97>>, <<128>>, <<35, 86, 35>> }

ConcInputs ==
    UNION { {Concat(ps) : ps \in [1..n -> ConcPieces]} : n \in 0..MaxConcPieces }

InitConc ==
    /\ version \in VersionNames
    /\ strategy \in Strategies
    /\ input \in [Threads -> ConcInputs]
    /\ pc = [t \in Threads |-> "ready"]
    /\ indices = [t \in Threads |-> <<>>]
    /\ encoded = [t \in Threads |-> None]
    /\ decIndices = [t \in Threads |-> <<>>]
    /\ decoded = [t \in Threads |-> None]

\* lines 102-138 of encode_with_strategy: filter, tokenize, look up; an
\* error returns from the call at once
CallTokenize(t) ==
    /\ pc[t] = "ready"
    /\ LET idxs == encode_indices(input[t], VersionOf(version).lookup, strategy)
       IN  IF idxs.ok
           THEN /\ indices' = [indices EXCEPT ![t] = idxs.val]
                /\ pc' = [pc EXCEPT ![t] = "packing"]
                /\ UNCHANGED encoded
           ELSE /\ encoded' = [encoded EXCEPT ![t] = idxs]
                /\ pc' = [pc EXCEPT ![t] = "encoded"]
                /\ UNCHANGED indices
    /\ UNCHANGED <<version, strategy, input, decIndices, decoded>>

\* variant: the indices are kept in one buffer shared by all calls (the
\* slot of thread 1) instead of a local of the call
CallPack_shared_buffer(t) ==
    /\ pc[t] = "packing"
    /\ encoded' = [encoded EXCEPT ![t] = Ok(pack_indices(indices[1]))]
    /\ pc' = [pc EXCEPT ![t] = "encoded"]
    /\ UNCHANGED <<version, strategy, input, indices, decIndices, decoded>>

\* lines 140-163 of encode_with_strategy: pack the call's own `indices`
CallPack(t) ==
    /\ pc[t] = "packing"
    /\ encoded' = [encoded EXCEPT ![t] = Ok(pack_indices(indices[t]))]
    /\ pc' = [pc EXCEPT ![t] = "encoded"]
    /\ UNCHANGED <<version, strategy, input, indices, decIndices, decoded>>

\* lines 171-203 of decode_with_strategy on the Ok(encoded) of the thread
CallUnpack(t) ==
    /\ pc[t] = "encoded"
    /\ encoded[t].ok
    /\ LET idxs == decode_indices(encoded[t].val)
       IN  IF idxs.ok
           THEN /\ decIndices' = [decIndices EXCEPT ![t] = idxs.val]
                /\ pc' = [pc EXCEPT ![t] = "resolving"]
                /\ UNCHANGED decoded
           ELSE /\ decoded' = [decoded EXCEPT ![t] = idxs]
                /\ pc' = [pc EXCEPT ![t] = "decoded"]
                /\ UNCHANGED decIndices
    /\ UNCHANGED <<version, strategy, input, indices, encoded>>

\* lines 205-228 of decode_with_strategy: the call's own `indices` to text
CallResolve(t) ==
    /\ pc[t] = "resolving"
    /\ LET result == IndicesToText(decIndices[t], VersionOf(version).charset,
                                   strategy, 1, <<>>)
       IN  decoded' = [decoded EXCEPT ![t] =
                          IF ~result.ok THEN result
                          ELSE Ok(postprocess(strategy, result.val))]
    /\ pc' = [pc EXCEPT ![t] = "decoded"]
    /\ UNCHANGED <<version, strategy, input, indices, encoded, decIndices>>

\* the thread is done with its text and takes the next one, reusing the
\* same version and strategy
CallAgain(t) ==
    /\ pc[t] = "decoded" \/ (pc[t] = "encoded" /\ ~encoded[t].ok)
    /\ \E next \in ConcInputs : input' = [input EXCEPT ![t] = next]
    /\ pc' = [pc EXCEPT ![t] = "ready"]
    /\ indices' = [indices EXCEPT ![t] = <<>>]
    /\ encoded' = [encoded EXCEPT ![t] = None]
    /\ decIndices' = [decIndices EXCEPT ![t] = <<>>]
    /\ decoded' = [decoded EXCEPT ![t] = None]
    /\ UNCHANGED <<version, strategy>>

ConcTokenize == \E t \in Threads : CallTokenize(t)

ConcPack == \E t \in Threads : CallPack(t)

ConcUnpack == \E t \in Threads : CallUnpack(t)

ConcResolve == \E t \in Threads : CallResolve(t)

ConcAgain == \E t \in Threads : CallAgain(t)

NextConc == ConcTokenize \/ ConcPack \/ ConcUnpack \/ ConcResolve \/ ConcAgain

SpecConc == InitConc /\ [][NextConc]_vars

(***************************************************************************)
(* The stream callers: a stream of key=value tokens is encoded with a      *)
(* key-marking encoder and the result decoded with the matching decoder.   *)
(***************************************************************************)
MaxTokens == 2

\* "k", the namespaced "a:k", and "k_asc", which ends in the key suffix
StreamKeys == { <<107>>, <<97, 58, 107>>, <<107>> \o KeySuffix }

\* "", "v", "Hi!" and "#V#"
StreamValues == { <<>>, <<118>>, <<72, 105, 33>>, <<35, 86, 35>> }

\* up to MaxTokens tokens "key=value", joined by "; "
Streams ==
    UNION { {join(ts, <<59, 32>>) :
                ts \in [1..n -> { k \o <<61>> \o v : k \in StreamKeys, v \in StreamValues }]} :
            n \in 0..MaxTokens }

\* the encoder and the decoder built on the strategy
EncoderOf(strat) ==
    IF strat = CoreStrict THEN encoder_key ELSE extensions_encoder

DecoderOf(strat) ==
    IF strat = CoreStrict THEN decoder ELSE extensions_decoder

InitStream ==
    /\ version = "v1_standard"
    /\ strategy \in {CoreStrict, ExtensionsStrict}
    /\ input \in Streams
    /\ pc = "ready"
    /\ indices = <<>>
    /\ encoded = None
    /\ decIndices = <<>>
    /\ decoded = None

\* pipeline::transform_stream(original, &encoder)
StreamEncode ==
    /\ pc = "ready"
    /\ encoded' = transform_stream(input, EncoderOf(strategy))
    /\ pc' = "stream_encoded"
    /\ UNCHANGED <<version, strategy, input, indices, decIndices, decoded>>

\* pipeline::transform_stream(&encoded, &decoder) on an Ok(encoded)
StreamDecode ==
    /\ pc = "stream_encoded"
    /\ encoded.ok
    /\ decoded' = transform_stream(encoded.val, DecoderOf(strategy))
    /\ pc' = "stream_decoded"
    /\ UNCHANGED <<version, strategy, input, indices, encoded, decIndices>>

NextStream == StreamEncode \/ StreamDecode

SpecStream == InitStream /\ [][NextStream]_vars

(***************************************************************************)
(* Vocabulary of the properties                                            *)
(***************************************************************************)
\* printable ASCII 32-126, tab, newline, carriage return, NUL, 0x01
BaseAlphabet == (32..126) \cup {9, 10, 13, 0, 1}

IsBaseChar(c) == c \in BaseAlphabet

OnlyBase(s) == \A i \in 1..Len(s) : s[i] \in BaseAlphabet

\* the first character of s, in input order, outside the base alphabet
FirstInvalid(s) ==
    s[CHOOSE i \in 1..Len(s) :
        /\ s[i] \notin BaseAlphabet
        /\ \A j \in 1..(i - 1) : s[j] \in BaseAlphabet]

NumInvalid(s) == Cardinality({i \in 1..Len(s) : s[i] \notin BaseAlphabet})

MarkerNames == {MARKERS[k][1] : k \in 1..Len(MARKERS)}

\* s has an occurrence of pat starting at position i
OccursAt(s, pat, i) ==
    /\ i + Len(pat) - 1 <= Len(s)
    /\ SubSeq(s, i, i + Len(pat) - 1) = pat

\* some marker name of the table is a substring of s
ContainsMarkerToken(s) ==
    \E m \in MarkerNames : \E i \in 1..Len(s) : OccursAt(s, m, i)

\* started, and the encoder returned Ok
EncodedOk == pc \in {"encoded", "decoded"} /\ encoded.ok

(***************************************************************************)
(* Round trips                                                             *)
(***************************************************************************)
\* C1: under Core + Strict, in every version, a text of base-alphabet
\* characters only ('#' and marker names included, which Core reads
\* literally) is encoded without error and decodes to exactly itself.
RoundTripCoreStrict ==
    (strategy = CoreStrict /\ OnlyBase(input)) =>
        /\ pc = "encoded" => encoded.ok
        /\ pc = "decoded" => decoded.ok /\ decoded.val = input

\* a Core + Strict round trip of "#V# a" in the URL version has completed
RoundTripCoreStrictWitness ==
    /\ pc = "decoded"
    /\ strategy = CoreStrict
    /\ version = "v4_url_optimized"
    /\ input = <<35, 86, 35, 32, 97>>
    /\ Len(indices) = 5

\* C2: under Extensions + Strict a text of base-alphabet characters and
\* marker tokens (adjacent, bordered by spaces, embedded in text, or none at
\* all) is encoded without error and decodes to exactly itself.
RoundTripExtensionsStrict ==
    (strategy = ExtensionsStrict /\ OnlyBase(input)) =>
        /\ pc = "encoded" => encoded.ok
        /\ pc = "decoded" => decoded.ok /\ decoded.val = input

\* an Extensions + Strict round trip of "#V##EOF# " has completed, the two
\* adjacent markers having been packed as their codes
RoundTripExtensionsStrictWitness ==
    /\ pc = "decoded"
    /\ strategy = ExtensionsStrict
    /\ input = <<35, 86, 35, 35, 69, 79, 70, 35, 32>>
    /\ indices[1] = 103
    /\ indices[2] = 101
    /\ Len(indices) = 3

(***************************************************************************)
(* Core literalness                                                        *)
(***************************************************************************)
\* what Extensions + Strict returns for the input of the current call
ExtensionsStrictOutput ==
    encode_with_strategy(input, VersionOf(version).charset,
                         VersionOf(version).lookup, ExtensionsStrict)

\* the Extensions tokenizer recognizes at least one marker in s
TokenizerFindsMarker(s) ==
    \E k \in 1..Len(parse_sentinels(s, ExtensionsStrict).val) :
        parse_sentinels(s, ExtensionsStrict).val[k].kind = "Marker"

\* C3 as stated: whenever the text contains a marker token of the table,
\* the Core + Strict output differs from the Extensions + Strict output for
\* the same text, and the Core output decodes under Core to the text.
CoreLiteralnessAnyMarkerText ==
    (strategy = CoreStrict /\ EncodedOk /\ ContainsMarkerToken(input)) =>
        /\ encoded # ExtensionsStrictOutput
        /\ pc = "decoded" => decoded.ok /\ decoded.val = input

\* C3 amended: whenever the Extensions tokenizer recognizes a marker in the
\* text (as in "#V#"), Core + Strict encodes every character literally (one
\* charset index below 100 per character), its output differs from the
\* Extensions + Strict output, and it decodes under Core to the text.
CoreLiteralness ==
    (strategy = CoreStrict /\ EncodedOk /\ TokenizerFindsMarker(input)) =>
        /\ Len(indices) = Len(input)
        /\ \A k \in 1..Len(indices) : indices[k] < 100
        /\ encoded # ExtensionsStrictOutput
        /\ pc = "decoded" => decoded.ok /\ decoded.val = input

\* "#V#" has made a Core + Strict round trip
CoreLiteralnessWitness ==
    /\ pc = "decoded"
    /\ strategy = CoreStrict
    /\ input = <<35, 86, 35>>
    /\ Len(encoded.val) = 4

(***************************************************************************)
(* Filter policies                                                         *)
(***************************************************************************)
\* C4: with a Strict filter (Core or Extensions), encoding a text that has a
\* character outside the base alphabet fails with InvalidCharacter carrying
\* the first such character in input order; no output, partial or
\* otherwise, is returned and nothing is decoded.
StrictFailure ==
    (strategy.filter = "Strict" /\ ~OnlyBase(input) /\ pc # "ready") =>
        /\ pc = "encoded"
        /\ ~encoded.ok
        /\ encoded.err = "InvalidCharacter"
        /\ encoded.arg = FirstInvalid(input)
        /\ encoded.val = <<>>
        /\ indices = <<>>
        /\ decoded = None

\* a Strict encoding of "a", U+0080, DEL has failed on U+0080
StrictFailureWitness ==
    /\ pc = "encoded"
    /\ strategy.filter = "Strict"
    /\ input = <<97, 128, 127>>
    /\ encoded.err = "InvalidCharacter"
    /\ encoded.arg = 128

\* C5: with a Strip filter every text is encoded without error, and
\* decoding returns the text without its out-of-base characters, the others
\* in their order.
StripPolicy ==
    strategy.filter = "Strip" =>
        /\ pc = "encoded" => encoded.ok
        /\ pc = "decoded" =>
              decoded.ok /\ decoded.val = SelectSeq(input, IsBaseChar)

\* a Strip round trip of "a", U+0080, " " has returned "a "
StripPolicyWitness ==
    /\ pc = "decoded"
    /\ strategy.filter = "Strip"
    /\ input = <<97, 128, 32>>
    /\ decoded.val = <<97, 32>>

\* s with every out-of-base character replaced by "#INV#"
ReplaceInvalid(s) ==
    Concat([i \in 1..Len(s) |->
               IF s[i] \in BaseAlphabet THEN <<s[i]>> ELSE <<35, 73, 78, 86, 35>>])

RECURSIVE CountFrom(_, _, _)
\* the number of non-overlapping occurrences of pat in s from position i on,
\* found left to right
CountFrom(s, pat, i) ==
    IF i + Len(pat) - 1 > Len(s) THEN 0
    ELSE IF OccursAt(s, pat, i) THEN 1 + CountFrom(s, pat, i + Len(pat))
    ELSE CountFrom(s, pat, i + 1)

\* C6: under Sanitize + Extensions every text is encoded without error, and
\* decoding returns the text with each out-of-base character replaced by
\* "#INV#", the valid text kept in order: each invalid character accounts
\* for one "#INV#" (exactly as many "#INV#" as invalid characters when the
\* text has no '#' of its own).
SanitizePolicy ==
    strategy = [kind |-> "Extensions", filter |-> "Sanitize"] =>
        /\ pc = "encoded" => encoded.ok
        /\ pc = "decoded" =>
              /\ decoded.ok
              /\ decoded.val = ReplaceInvalid(input)
              /\ CountFrom(decoded.val, <<35, 73, 78, 86, 35>>, 1) >= NumInvalid(input)
              /\ (\A i \in 1..Len(input) : input[i] # 35) =>
                    CountFrom(decoded.val, <<35, 73, 78, 86, 35>>, 1) = NumInvalid(input)

\* a Sanitize + Extensions round trip of "a", U+0080, DEL has returned
\* "a#INV##INV#"
SanitizePolicyWitness ==
    /\ pc = "decoded"
    /\ strategy = [kind |-> "Extensions", filter |-> "Sanitize"]
    /\ input = <<97, 128, 127>>
    /\ decoded.val = <<97, 35, 73, 78, 86, 35, 35, 73, 78, 86, 35>>

(***************************************************************************)
(* Bit packing                                                             *)
(***************************************************************************)
CeilDiv(a, b) == (a + b - 1) \div b

RECURSIVE SentinelSize(_, _)
\* literal characters + markers of the sentinels k.. of ss
SentinelSize(ss, k) ==
    IF k > Len(ss) THEN 0
    ELSE (IF ss[k].kind = "Text" THEN Len(ss[k].text) ELSE 1) + SentinelSize(ss, k + 1)

\* C7: when n indices are packed (n = literal characters + recognized
\* markers of the filtered text), the output has exactly ceil(7n/6)
\* characters, and decoding it recovers exactly those n indices: the trailing
\* group shorter than 7 bits yields no index.
BitPackingBoundary ==
    EncodedOk =>
        /\ Len(indices) =
              SentinelSize(parse_sentinels(preprocess(strategy, input).val, strategy).val, 1)
        /\ Len(encoded.val) = CeilDiv(7 * Len(indices), 6)
        /\ pc = "decoded" => Len(decIndices) = Len(indices) /\ decIndices = indices

\* six indices (42 bits, a multiple of 6) have been packed into seven
\* characters and unpacked again
BitPackingBoundaryWitness ==
    /\ pc = "decoded"
    /\ Len(indices) = 6
    /\ Len(encoded.val) = 7
    /\ Len(decIndices) = 6

\* bit j (from 0) of the concatenation of the indices, 7 bits each, most
\* significant bit first, followed by zero bits
WireBit(idxs, j) ==
    IF j < 7 * Len(idxs)
    THEN (idxs[(j \div 7) + 1] \div (2 ^ (6 - (j % 7)))) % 2
    ELSE 0

\* the unsigned value of bits 6k .. 6k+5 (k from 0)
WireValue(idxs, k) ==
    32 * WireBit(idxs, 6 * k) + 16 * WireBit(idxs, 6 * k + 1)
    + 8 * WireBit(idxs, 6 * k + 2) + 4 * WireBit(idxs, 6 * k + 3)
    + 2 * WireBit(idxs, 6 * k + 4) + WireBit(idxs, 6 * k + 5)

\* A-Z a-z 0-9 + /
PackingAlphabet == (65..90) \cup (97..122) \cup (48..57) \cup {43, 47}

\* the k-th symbol (from 0) of the packing alphabet
PackingSymbol(k) ==
    CASE k <= 25          -> 65 + k
      [] k \in 26..51     -> 97 + (k - 26)
      [] k \in 52..61     -> 48 + (k - 52)
      [] k = 62           -> 43
      [] k = 63           -> 47

\* C8: output symbol k is the packing symbol of the value of bits 6k..6k+5
\* of the 7-bit big-endian concatenation of the indices, zero-padded on the
\* right to a multiple of 6; every output character is one of A-Z a-z 0-9
\* + / and '=' never appears.
WireFormat ==
    EncodedOk =>
        /\ 6 * Len(encoded.val) >= 7 * Len(indices)
        /\ 6 * Len(encoded.val) < 7 * Len(indices) + 6
        /\ \A k \in 0..(Len(encoded.val) - 1) :
              /\ encoded.val[k + 1] = PackingSymbol(WireValue(indices, k))
              /\ encoded.val[k + 1] \in PackingAlphabet
              /\ encoded.val[k + 1] # 61

\* "a #V#" has been packed under Extensions in the standard version:
\* indices 65, 94, 103 are the bits 100000 110111 101100 111(000), the
\* symbols g 3 s 4
WireFormatWitness ==
    /\ pc = "encoded"
    /\ version = "v1_standard"
    /\ indices = <<65, 94, 103>>
    /\ encoded.val = <<103, 51, 115, 52>>

(***************************************************************************)
(* Charset and lookup tables                                               *)
(***************************************************************************)
\* the characters a charset holds
CharsetRange(charset) == {charset[i] : i \in 0..99}

\* lookup[charset[i]] = i for every index i in 0..99, no two distinct indices
\* hold the same character, and every ASCII code point that is not in the
\* charset has lookup 255
HasLookupBijection(v) ==
    LET range == CharsetRange(v.charset)
    IN  /\ \A i \in 0..99 : v.charset[i] \in 0..127 /\ v.lookup[v.charset[i]] = i
        /\ Cardinality(range) = 100
        /\ \A a \in 0..127 : a \notin range => v.lookup[a] = 255

\* the versions whose tables have the property (the tables never change, so
\* this is computed once)
LookupBijectionVersions == {v.name : v \in {w \in Versions : HasLookupBijection(w)}}

\* C9: the version in use (each of the four) has the lookup bijection:
\* lookup[charset[i]] = i for every index i in 0..99, no two distinct indices
\* hold the same character, and every ASCII code point that is not in the
\* charset has lookup 255.
LookupBijection == version \in LookupBijectionVersions

\* the URL version has been used for an encoding: 'a' is found at index 0,
\* 0x01 at index 99, and DEL is absent
LookupBijectionWitness ==
    /\ pc = "encoded"
    /\ encoded.ok
    /\ version = "v4_url_optimized"
    /\ VersionOf(version).lookup[97] = 0
    /\ VersionOf(version).lookup[1] = 99
    /\ VersionOf(version).lookup[127] = 255

\* indices 0-94 hold a permutation of the printable characters 32-126 and
\* indices 95-99 hold tab, newline, carriage return, NUL, 0x01 in that order
HasCharsetStructure(cs) ==
    /\ DOMAIN cs = 0..99
    /\ {cs[i] : i \in 0..94} = 32..126
    /\ <<cs[95], cs[96], cs[97], cs[98], cs[99]>> = <<9, 10, 13, 0, 1>>
    /\ CharsetRange(cs) = BaseAlphabet
    /\ Cardinality(CharsetRange(cs)) = 100

CharsetStructureVersions ==
    {v.name : v \in {w \in Versions : HasCharsetStructure(w.charset)}}

\* C10: in the version in use (each of the four), indices 0-94 hold a
\* permutation of the printable characters 32-126 and indices 95-99 hold
\* tab, newline, carriage return, NUL, 0x01 in that order, so the charset is
\* a permutation of the 100-character base set, nothing twice, nothing left
\* out.
CharsetStructure == version \in CharsetStructureVersions

\* the standard version, space and tilde exchanged, has been used for an
\* encoding
CharsetStructureWitness ==
    /\ pc = "encoded"
    /\ encoded.ok
    /\ version = "v1_standard"
    /\ VersionOf(version).charset[0] = 126
    /\ VersionOf(version).charset[94] = 32

(***************************************************************************)
(* C11: the marker table                                                   *)
(***************************************************************************)
\* the letters between the '#' brackets: INV EOF NL V Q E X, SSX ESX,
\* MEM CTX FX ARG TR DNT BRK, HSO HSI ACK
ListedMarkerLetters ==
    << <<73, 78, 86>>, <<69, 79, 70>>, <<78, 76>>, <<86>>, <<81>>, <<69>>,
       <<88>>, <<83, 83, 88>>, <<69, 83, 88>>, <<77, 69, 77>>, <<67, 84, 88>>,
       <<70, 88>>, <<65, 82, 71>>, <<84, 82>>, <<68, 78, 84>>, <<66, 82, 75>>,
       <<72, 83, 79>>, <<72, 83, 73>>, <<65, 67, 75>> >>

\* the k-th listed name is bracketed by '#' and has code 99 + k
ListedMarkers ==
    { << <<35>> \o ListedMarkerLetters[k] \o <<35>>, 99 + k >> :
        k \in 1..Len(ListedMarkerLetters) }

MarkerEntries == { MARKERS[k] : k \in 1..Len(MARKERS) }

MarkerCodes == { MARKERS[k][2] : k \in 1..Len(MARKERS) }

MarkerTableShape ==
    /\ \A k \in 1..Len(MARKERS) : MARKERS[k][2] \in 100..127
    /\ \A j, k \in 1..Len(MARKERS) :
          j # k => /\ MARKERS[j][1] # MARKERS[k][1]
                   /\ MARKERS[j][2] # MARKERS[k][2]
    /\ MarkerEntries = ListedMarkers
    /\ MarkerCodes = 100..118
    /\ \A code \in 119..127 : MarkerPositionsByIndex(code) = {}

\* C11: every entry of the marker table has a code in 100..127, no two
\* entries share a name or a code, the table is exactly INV..X = 100..106,
\* SSX, ESX = 107..108, MEM..BRK = 109..115, HSO, HSI, ACK = 116..118 with
\* nothing at 119..127, and every marker code the encoder packs is the code
\* of a table entry.
MarkerTable ==
    /\ MarkerTableShape
    /\ pc # "ready" =>
          \A i \in 1..Len(indices) : indices[i] >= 100 => indices[i] \in MarkerCodes

MarkerTableWitness ==
    /\ pc = "encoded"
    /\ strategy.kind = "Extensions"
    /\ input = <<35, 86, 35, 35, 69, 79, 70, 35>>
    /\ indices = <<103, 101>>

(***************************************************************************)
(* C12: marker syntax                                                      *)
(***************************************************************************)
\* the positions at which pat occurs in s
OccurrencesOf(s, pat) == {i \in 1..Len(s) : OccursAt(s, pat, i)}

\* how many entries of seq equal x
CountOf(seq, x) == Cardinality({i \in 1..Len(seq) : seq[i] = x})

\* how many '#' stand before position i of s
HashesBefore(s, i) == Cardinality({j \in 1..(i - 1) : s[j] = 35})

\* a text of base characters was encoded under an Extensions policy
ExtensionsEncodedBase ==
    /\ EncodedOk
    /\ strategy.kind = "Extensions"
    /\ OnlyBase(input)

\* C12 as stated: under an Extensions policy every occurrence of a marker
\* name in the source text is packed as one index equal to the marker's
\* code, whatever precedes it.
MarkerSyntaxEveryOccurrence ==
    ExtensionsEncodedBase =>
        \A k \in 1..Len(MARKERS) :
            CountOf(indices, MARKERS[k][2])
                = Cardinality(OccurrencesOf(input, MARKERS[k][1]))

\* C12, amended: under an Extensions policy an occurrence of a marker name
\* is packed as exactly one index equal to the marker's code when an even
\* number of '#' precede it in the text (its opening '#' then starts a
\* tokenizer candidate); an occurrence with an odd number of '#' before it
\* is packed as literal characters, so it adds no marker code.
MarkerSyntax ==
    ExtensionsEncodedBase =>
        \A k \in 1..Len(MARKERS) :
            CountOf(indices, MARKERS[k][2])
                = Cardinality({i \in OccurrencesOf(input, MARKERS[k][1]) :
                                  HashesBefore(input, i) % 2 = 0})

\* " #V##EOF#": a space, then two adjacent markers, each one index
MarkerSyntaxWitness ==
    /\ pc = "encoded"
    /\ strategy.kind = "Extensions"
    /\ input = <<32, 35, 86, 35, 35, 69, 79, 70, 35>>
    /\ Len(indices) = 3
    /\ indices[2] = 103
    /\ indices[3] = 101

(***************************************************************************)
(* Decoding a received string                                              *)
(***************************************************************************)
\* one of the two decoders has run on the received string
WireDecoded == pc \in {"decoded", "legacy_decoded"}

HasForeign(w) == \E i \in 1..Len(w) : w[i] \notin PackingAlphabet

\* the first character of w, in input order, outside the packing alphabet
FirstForeign(w) ==
    w[CHOOSE i \in 1..Len(w) :
        /\ w[i] \notin PackingAlphabet
        /\ \A j \in 1..(i - 1) : w[j] \in PackingAlphabet]

\* C13: decode_with_strategy and the legacy decode fail with
\* InvalidBase64Character carrying the first character of the input that is
\* not one of the 64 packing symbols ('=', whitespace and code points >= 128
\* included), wherever it stands, and return no text.
DecodeRejectsForeign ==
    (WireDecoded /\ HasForeign(encoded.val)) =>
        /\ ~decoded.ok
        /\ decoded.err = "InvalidBase64Character"
        /\ decoded.arg = FirstForeign(encoded.val)
        /\ decoded.val = <<>>

\* "zg=" under Core: the '=' comes after a complete group of value 103, and
\* it is the '=' that is reported
DecodeRejectsForeignWitness ==
    /\ pc = "decoded"
    /\ strategy.kind = "Core"
    /\ encoded.val = <<122, 103, 61>>
    /\ decoded = Err("InvalidBase64Character", 61)

\* the 6-bit value of a packing symbol: A-Z 0..25, a-z 26..51, 0-9 52..61,
\* '+' 62, '/' 63
SymbolValue(c) ==
    CASE c \in 65..90  -> c - 65
      [] c \in 97..122 -> c - 71
      [] c \in 48..57  -> c + 4
      [] c = 43        -> 62
      [] c = 47        -> 63

\* bit b (from 0) of the string w read as 6 bits per symbol, most
\* significant bit first
SymbolBit(w, b) == (SymbolValue(w[(b \div 6) + 1]) \div (2 ^ (5 - (b % 6)))) % 2

\* how many complete 7-bit groups w holds
NumGroups(w) == (6 * Len(w)) \div 7

\* the value of the g-th complete 7-bit group (g from 1)
GroupValue(w, g) ==
    64 * SymbolBit(w, 7 * (g - 1)) + 32 * SymbolBit(w, 7 * (g - 1) + 1)
    + 16 * SymbolBit(w, 7 * (g - 1) + 2) + 8 * SymbolBit(w, 7 * (g - 1) + 3)
    + 4 * SymbolBit(w, 7 * (g - 1) + 4) + 2 * SymbolBit(w, 7 * (g - 1) + 5)
    + SymbolBit(w, 7 * (g - 1) + 6)

\* the complete groups of w whose value lies in S
GroupsIn(w, S) == {g \in 1..NumGroups(w) : GroupValue(w, g) \in S}

\* the first group of w whose value lies in S
FirstGroupIn(w, S) ==
    CHOOSE g \in GroupsIn(w, S) : \A h \in GroupsIn(w, S) : g <= h

\* C14: decode_with_strategy with a Core strategy fails with InvalidIndex(v)
\* whenever a complete 7-bit group of the input has a value v in 100..127
\* (v being the first such value), and returns no partial text.
DecodeCoreRejectsMarkerCodes ==
    (/\ pc = "decoded"
     /\ strategy.kind = "Core"
     /\ ~HasForeign(encoded.val)
     /\ GroupsIn(encoded.val, 100..127) # {}) =>
        /\ ~decoded.ok
        /\ decoded.err = "InvalidIndex"
        /\ decoded.arg =
              GroupValue(encoded.val, FirstGroupIn(encoded.val, 100..127))
        /\ decoded.val = <<>>

\* "A7A" is the groups 1 and 108: the character of index 1 is not returned
DecodeCoreRejectsMarkerCodesWitness ==
    /\ pc = "decoded"
    /\ strategy.kind = "Core"
    /\ encoded.val = <<65, 55, 65>>
    /\ decIndices = <<1, 108>>
    /\ decoded = Err("InvalidIndex", 108)

\* C15: decode_with_strategy with an Extensions strategy fails with
\* InvalidIndex(v) when a complete 7-bit group of the input has a value v in
\* 119..127, a code with no entry in the marker table.
DecodeExtensionsRejectsUnmapped ==
    (/\ pc = "decoded"
     /\ strategy.kind = "Extensions"
     /\ ~HasForeign(encoded.val)
     /\ GroupsIn(encoded.val, 119..127) # {}) =>
        /\ ~decoded.ok
        /\ decoded.err = "InvalidIndex"
        /\ decoded.arg \in
              {GroupValue(encoded.val, g) : g \in GroupsIn(encoded.val, 119..127)}

(***************************************************************************)
(* C16: index range under Core                                             *)
(***************************************************************************)
\* C16: for every input that a Core strategy accepts, with any filter, every
\* index the encoder packs lies in 0..99; no marker code is emitted, not for
\* a marker name in the text and not for the "#INV#" that Sanitize inserts.
CoreIndexRange ==
    (EncodedOk /\ strategy.kind = "Core") =>
        \A i \in 1..Len(indices) : indices[i] \in 0..99

\* U+0080 and "#V#" under Core+Sanitize: "#INV##V#" is packed as eight
\* literal characters
CoreIndexRangeWitness ==
    /\ pc = "encoded"
    /\ strategy = [kind |-> "Core", filter |-> "Sanitize"]
    /\ input = <<128, 35, 86, 35>>
    /\ encoded.ok
    /\ Len(indices) = 8
    /\ \A i \in 1..8 : indices[i] < 100

(***************************************************************************)
(* The legacy pair                                                         *)
(***************************************************************************)
\* C18: for every string s of characters of the standard charset, marker
\* names and fake markers included, V1_STANDARD.encode(s) succeeds and
\* V1_STANDARD.decode of the result returns s.
LegacyRoundTrip ==
    (/\ pc \in {"encoded", "legacy_decoded"}
     /\ version = "v1_standard"
     /\ OnlyBase(input)) =>
        /\ encoded.ok
        /\ pc = "legacy_decoded" => decoded = Ok(input)

\* the text that the g-th complete group of w stands for when a value in
\* 100..127 is taken as the character with that code point
RawGroupText(w, charset) ==
    [g \in 1..NumGroups(w) |->
        IF GroupValue(w, g) >= 100 THEN GroupValue(w, g)
        ELSE charset[GroupValue(w, g)]]

\* C19: the legacy decode turns every complete 7-bit group with a value in
\* 100..127 into the character with that code point, so that every complete
\* group contributes one character to the text handed to marker
\* post-processing.
LegacyDecodeRawMarkerCodes ==
    (pc = "legacy_decoded" /\ ~HasForeign(encoded.val)) =>
        /\ Len(decIndices) = NumGroups(encoded.val)
        /\ \A g \in 1..NumGroups(encoded.val) :
              decIndices[g] = GroupValue(encoded.val, g)
        /\ decoded =
              Ok(postprocess_markers(
                     RawGroupText(encoded.val, VersionOf(version).charset)))

(***************************************************************************)
(* The reference codec                                                     *)
(***************************************************************************)
\* C20: for every text s of base-charset characters, with or without
\* configured #NAME# markers, the reference codec with the default extension
\* encodes s and decodes the result to s (test_round_trip returns true).
RefRoundTrip ==
    (pc \in {"encoded", "ref_decoded"} /\ version = "reference" /\ OnlyBase(input)) =>
        /\ encoded.ok
        /\ pc = "ref_decoded" => decoded = Ok(input)

(***************************************************************************)
(* C17: purity under concurrency                                           *)
(***************************************************************************)
\* what the thread's calls have returned so far is what the same calls
\* return when run alone on the same arguments
ReturnsSoloResult(t) ==
    LET v == VersionOf(version)
    IN  /\ pc[t] \in {"encoded", "resolving", "decoded"} =>
              encoded[t] = encode_with_strategy(input[t], v.charset, v.lookup, strategy)
        /\ pc[t] = "decoded" =>
              decoded[t] = decode_with_strategy(encoded[t].val, v.charset, strategy)

\* C17: the shared version (charset, lookup table) and strategy are never
\* written, and under every interleaving of the steps of concurrent calls,
\* and after any number of earlier calls with the same strategy, each call
\* returns exactly what it returns when run alone on the same arguments.
Purity ==
    /\ [](\A t \in Threads : ReturnsSoloResult(t))
    /\ [][version' = version /\ strategy' = strategy]_vars

\* thread 2 has encoded and decoded "#V#" under Extensions while thread 1
\* is in the middle of encoding "a", its indices not yet packed
PurityWitness ==
    /\ strategy.kind = "Extensions"
    /\ pc[1] = "packing"
    /\ input[1] = <<97>>
    /\ pc[2] = "decoded"
    /\ input[2] = <<35, 86, 35>>
    /\ decIndices[2] = <<103>>
    /\ decoded[2] = Ok(<<35, 86, 35>>)

(***************************************************************************)
(* The token stream                                                        *)
(***************************************************************************)
\* C21: for every stream of key=value tokens joined by "; ", encoding it
\* with the key-marking encoder succeeds and decoding the result returns
\* exactly the original stream, for every key: plain, namespaced, or ending
\* in the key suffix already.
StreamRoundTrip ==
    /\ pc \in {"stream_encoded", "stream_decoded"} => encoded.ok
    /\ pc = "stream_decoded" => decoded = Ok(input)

(***************************************************************************)
(* The tokenizer                                                           *)
(***************************************************************************)
\* the table entries whose name stands at the start of s
MarkersAtStart(s) == {k \in 1..Len(MARKERS) : OccursAt(s, MARKERS[k][1], 1)}

RECURSIVE MarkerRunCodes(_)
\* Ok(the codes in order) when s is marker names written back to back with
\* nothing between them, None otherwise
MarkerRunCodes(s) ==
    IF s = <<>> THEN Ok(<<>>)
    ELSE IF MarkersAtStart(s) = {} THEN None
    ELSE LET k    == CHOOSE j \in MarkersAtStart(s) : TRUE
             rest == MarkerRunCodes(SubSeq(s, Len(MARKERS[k][1]) + 1, Len(s)))
         IN  IF ~rest.ok THEN None ELSE Ok(<<MARKERS[k][2]>> \o rest.val)

\* C22: under Extensions, a text of k marker names written back to back is
\* tokenized into exactly k marker sentinels in source order, with no
\* literal run, and is encoded as exactly the k marker codes.
AdjacentMarkers ==
    (/\ EncodedOk
     /\ strategy.kind = "Extensions"
     /\ MarkerRunCodes(input).ok) =>
        LET codes == MarkerRunCodes(input).val
            ss    == parse_sentinels(input, strategy).val
        IN  /\ Len(ss) = Len(codes)
            /\ \A k \in 1..Len(codes) : ss[k] = MarkerSentinel(codes[k])
            /\ indices = codes

\* "#V##EOF##INV#" is three marker sentinels and the indices 103, 101, 100
AdjacentMarkersWitness ==
    /\ pc = "encoded"
    /\ strategy.kind = "Extensions"
    /\ input = <<35, 86, 35, 35, 69, 79, 70, 35, 35, 73, 78, 86, 35>>
    /\ Len(parse_sentinels(input, strategy).val) = 3
    /\ indices = <<103, 101, 100>>

\* the occurrences of the k-th marker name that open a candidate: an even
\* number of '#' stand before them
RecognizedAt(s, k) ==
    {i \in OccurrencesOf(s, MARKERS[k][1]) : HashesBefore(s, i) % 2 = 0}

NoRecognizedMarker(s) == \A k \in 1..Len(MARKERS) : RecognizedAt(s, k) = {}

RECURSIVE SavedByMarkers(_, _)
\* the characters saved by packing each recognized marker as one index
SavedByMarkers(s, k) ==
    IF k > Len(MARKERS) THEN 0
    ELSE Cardinality(RecognizedAt(s, k)) * (Len(MARKERS[k][1]) - 1)
         + SavedByMarkers(s, k + 1)

\* C23: under Extensions, a '#'-opened candidate that is not a marker name,
\* or a '#' with no closing '#', stays in the literal run with its '#'
\* characters and is packed one index per character: a text with '#' but no
\* recognized marker is one literal run packed character by character, and
\* in any text only recognized markers shorten the index stream; the
\* tokenizer never fails and the text round-trips exactly.
NonMarkerCandidatesLiteral ==
    (ExtensionsEncodedBase /\ \E i \in 1..Len(input) : input[i] = 35) =>
        LET ss == parse_sentinels(input, strategy)
            lookup == VersionOf(version).lookup
        IN  /\ ss.ok
            /\ Len(indices) = Len(input) - SavedByMarkers(input, 1)
            /\ NoRecognizedMarker(input) =>
                  /\ ss.val = <<TextSentinel(input)>>
                  /\ Len(indices) = Len(input)
                  /\ \A i \in 1..Len(input) : indices[i] = lookup[input[i]]
            /\ pc = "decoded" => decoded = Ok(input)

\* "#a#" is a candidate that is no marker name: three literal indices
NonMarkerCandidatesLiteralWitness ==
    /\ pc = "decoded"
    /\ strategy.kind = "Extensions"
    /\ input = <<35, 97, 35>>
    /\ Len(indices) = 3
    /\ decoded = Ok(<<35, 97, 35>>)


(***************************************************************************)
(* Filter classification                                                   *)
(***************************************************************************)
\* code points on both sides of every boundary of the base range, and
\* beyond ASCII
SampleChars == 0..300

\* the action the three filters are said to take on ch
ExpectedAction(filter, ch) ==
    IF ch \in BaseAlphabet THEN Keep
    ELSE CASE filter = "Strict"   -> Error(ch)
           [] filter = "Strip"    -> Skip
           [] filter = "Sanitize" -> Replace(<<35, 73, 78, 86, 35>>)

\* every filter keeps exactly the base alphabet and takes its own action on
\* every other code point
ClassifiesAll ==
    \A f \in Filters : \A ch \in SampleChars :
        handle_char(f, ch) = ExpectedAction(f, ch)

\* C24: the three filters keep exactly the code points 32..126 and 9, 10,
\* 13, 0, 1; on every other one (DEL, the other controls, 128 and above)
\* Strict fails with that character, Strip drops it and Sanitize puts
\* "#INV#" in its place; filter_input applies the action to each character
\* in input order, and the encoder fails exactly when the filter does.
FilterClassification ==
    pc = "encoded" =>
        LET f   == strategy.filter
            out == filter_input(f, input)
        IN  /\ ClassifiesAll
            /\ \A i \in 1..Len(input) :
                   handle_char(f, input[i]) = ExpectedAction(f, input[i])
            /\ f = "Strict" =>
                   out = IF OnlyBase(input) THEN Ok(input)
                         ELSE Err("InvalidCharacter", FirstInvalid(input))
            /\ f = "Strip" => out = Ok(SelectSeq(input, IsBaseChar))
            /\ f = "Sanitize" => out = Ok(ReplaceInvalid(input))
            /\ encoded.ok = out.ok
            /\ ~out.ok => encoded = out

\* DEL, tab, U+0080 has been encoded under Strip: the filter kept the tab
\* alone, so one index was packed
FilterClassificationWitness ==
    /\ pc = "encoded"
    /\ strategy.filter = "Strip"
    /\ input = <<127, 9, 128>>
    /\ filter_input("Strip", input) = Ok(<<9>>)
    /\ Len(indices) = 1


(***************************************************************************)
(* Trailing bits                                                           *)
(***************************************************************************)
\* the strings that differ from w at most in the bits after the last
\* complete 7-bit group; these bits (at most 6) all lie in the last symbol
\* while w has fewer than 7 symbols
SameButTrailing(w) ==
    {v \in {[w EXCEPT ![Len(w)] = s] : s \in WireSymbols \cap PackingAlphabet} :
        \A b \in 0..(7 * NumGroups(w) - 1) : SymbolBit(v, b) = SymbolBit(w, b)}

\* C25: decode_with_strategy of L packing symbols extracts exactly
\* floor(6L/7) groups of 7 bits, in order, each the value of its bits; the
\* 6L mod 7 bits after them are ignored, so a string of the same length that
\* differs only in those bits decodes to the same result; when every group is
\* below 100 the text has one character per group.
TrailingBitsDiscarded ==
    (pc = "decoded" /\ ~HasForeign(encoded.val)) =>
        LET w == encoded.val
            charset == VersionOf(version).charset
        IN  /\ Len(decIndices) = NumGroups(w)
            /\ \A g \in 1..NumGroups(w) : decIndices[g] = GroupValue(w, g)
            /\ \A v \in SameButTrailing(w) :
                   decode_with_strategy(v, charset, strategy) = decoded
            /\ GroupsIn(w, 100..127) = {} =>
                   /\ decoded.ok
                   /\ Len(decoded.val) = NumGroups(w)
                   /\ \A g \in 1..NumGroups(w) :
                          decoded.val[g] = charset[GroupValue(w, g)]

\* "Az" has been decoded: one group of value 1, and the five bits 10011 after
\* it did not count, as "A/" (trailing bits 11111) decodes alike
TrailingBitsDiscardedWitness ==
    /\ pc = "decoded"
    /\ encoded.val = <<65, 122>>
    /\ decIndices = <<1>>
    /\ decoded.ok
    /\ Len(decoded.val) = 1
    /\ <<65, 47>> \in SameButTrailing(encoded.val)


(***************************************************************************)
(* Errors of the encoder                                                   *)
(***************************************************************************)
\* C26: whatever the filter, the policy and the version, every character
\* that the filter lets through or puts in is below 128 and has a slot in
\* the lookup table, so encode_with_strategy fails in no other way than with
\* the InvalidCharacter of the Strict filter: never with NonAsciiInput, and
\* never with an InvalidCharacter of the index lookup.
PackerErrorsUnreachable ==
    pc = "encoded" =>
        LET out    == filter_input(strategy.filter, input)
            lookup == VersionOf(version).lookup
        IN  /\ out.ok =>
                  /\ encoded.ok
                  /\ \A i \in 1..Len(out.val) :
                         out.val[i] < 128 /\ lookup[out.val[i]] # 255
            /\ ~encoded.ok =>
                  /\ strategy.filter = "Strict"
                  /\ ~out.ok
                  /\ encoded = Err("InvalidCharacter", FirstInvalid(input))
            /\ encoded.err # "NonAsciiInput"

\* tab, U+0080, '#' has been encoded under Sanitize: the filtered text
\* "\t#INV##" went through the lookup without error
PackerErrorsUnreachableWitness ==
    /\ pc = "encoded"
    /\ strategy.filter = "Sanitize"
    /\ input = <<9, 128, 35>>
    /\ filter_input("Sanitize", input) = Ok(<<9, 35, 73, 78, 86, 35, 35>>)
    /\ encoded.ok


(***************************************************************************)
(* Layout of the URL-optimized version                                     *)
(***************************************************************************)
\* C27: the URL-optimized version has the lowercase letters a-z at the
\* indices 0..25 and the digits 0-9 right after them, at 26..35, in its
\* charset and in its lookup table alike; an encoded "a" has index 0.
V4UrlLayout ==
    (pc # "ready" /\ version = "v4_url_optimized") =>
        LET v == VersionOf(version)
        IN  /\ \A i \in 0..25 : v.charset[i] = 97 + i /\ v.lookup[97 + i] = i
            /\ \A i \in 0..9 :
                   v.charset[26 + i] = 48 + i /\ v.lookup[48 + i] = 26 + i
            /\ (input = <<97>> /\ encoded.ok) => indices = <<0>>


(***************************************************************************)
(* Sanitize and the INV marker code                                        *)
(***************************************************************************)
\* a text has been encoded under Extensions + Sanitize
SanitizeExtensionsEncoded ==
    /\ pc = "encoded"
    /\ strategy = [kind |-> "Extensions", filter |-> "Sanitize"]

\* the index stream the current version and policy give for the text s
IndicesOf(s) == encode_indices(s, VersionOf(version).lookup, strategy).val

\* the positions of the out-of-base characters of s
InvalidPositions(s) == {i \in 1..Len(s) : s[i] \notin BaseAlphabet}

\* C28 as stated: under Extensions + Sanitize each out-of-base character of
\* the text stands in the index stream as exactly one index of value 100,
\* between the indices of what precedes it and those of what follows it,
\* whatever these are.
SanitizeEmitsInvAlways ==
    SanitizeExtensionsEncoded =>
        /\ CountOf(indices, 100) >= NumInvalid(input)
        /\ \A i \in InvalidPositions(input) :
               indices = IndicesOf(SubSeq(input, 1, i - 1)) \o <<100>>
                         \o IndicesOf(SubSeq(input, i + 1, Len(input)))

\* C28, amended: under Extensions + Sanitize an out-of-base character with
\* an even number of '#' before it in the text stands in the index stream as
\* exactly one index of value 100, between the indices of what precedes it
\* and those of what follows it; with an odd number of '#' before it, the
\* '#' that opens its "#INV#" closes the open candidate instead, and the
\* letters I, N, V are packed as literal characters, not as the code 100.
SanitizeEmitsInv ==
    SanitizeExtensionsEncoded =>
        LET lookup == VersionOf(version).lookup
        IN  \A i \in InvalidPositions(input) :
                LET pre  == SubSeq(input, 1, i - 1)
                    post == SubSeq(input, i + 1, Len(input))
                IN  IF HashesBefore(input, i) % 2 = 0
                    THEN indices = IndicesOf(pre) \o <<100>> \o IndicesOf(post)
                    ELSE indices = IndicesOf(Append(pre, 35))
                                   \o <<lookup[73], lookup[78], lookup[86]>>
                                   \o IndicesOf(<<35>> \o post)

\* U+0080, '#', DEL has been encoded: 100, the index of '#', 100... the
\* second "#INV#" follows one '#' of the text and two of the first "#INV#"
SanitizeEmitsInvWitness ==
    /\ pc = "encoded"
    /\ strategy = [kind |-> "Extensions", filter |-> "Sanitize"]
    /\ input = <<128, 35, 127>>
    /\ indices[1] = 100
    /\ CountOf(indices, 100) = 1
    /\ Len(indices) = 7


(***************************************************************************)
(* The tokenizer and the text                                              *)
(***************************************************************************)
\* the "#NAME#" string of the table entry with the code m
MarkerNameOf(m) == MARKERS[CHOOSE k \in 1..Len(MARKERS) : MARKERS[k][2] = m][1]

\* the sentinels written out in order: a literal run as it is, a marker as
\* its "#NAME#" string
RenderSentinels(ss) ==
    Concat([k \in 1..Len(ss) |->
               IF ss[k].kind = "Text" THEN ss[k].text
               ELSE MarkerNameOf(ss[k].marker)])

\* C29: under either policy the sentinels of a text, written out in order
\* (literal runs as they are, markers as "#NAME#"), give back exactly that
\* text: for the text as the caller passed it and for the filtered text the
\* encoder tokenizes, whose sentinels make the packed indices.
TokenizerPreservesText ==
    pc = "encoded" =>
        LET raw      == parse_sentinels(input, strategy)
            filtered == preprocess(strategy, input)
        IN  /\ raw.ok
            /\ RenderSentinels(raw.val) = input
            /\ filtered.ok =>
                  LET ss == parse_sentinels(filtered.val, strategy)
                  IN  /\ ss.ok
                      /\ RenderSentinels(ss.val) = filtered.val
                      /\ Len(indices) = SentinelSize(ss.val, 1)

\* "a#V##" has been tokenized under Extensions into the text "a", the marker
\* 103 and the text "#"
TokenizerPreservesTextWitness ==
    /\ pc = "encoded"
    /\ strategy.kind = "Extensions"
    /\ input = <<97, 35, 86, 35, 35>>
    /\ parse_sentinels(input, strategy).val
           = <<TextSentinel(<<97>>), MarkerSentinel(103), TextSentinel(<<35>>)>>
    /\ indices[2] = 103


(***************************************************************************)
(* The filters on clean text                                               *)
(***************************************************************************)
\* what encode_with_strategy returns for the text under the current version
\* and policy with the filter f
EncodedUnder(f) ==
    encode_with_strategy(input, VersionOf(version).charset,
                         VersionOf(version).lookup,
                         [kind |-> strategy.kind, filter |-> f])

\* C30: for a text of base-alphabet characters only, encode_with_strategy
\* returns the same encoded string under Strict, Strip and Sanitize, the
\* policy and the version being the same; the filters give different
\* results only for a text with an out-of-base character.
FiltersAgreeOnClean ==
    (pc = "encoded" /\ OnlyBase(input)) =>
        /\ encoded.ok
        /\ \A f \in Filters \ {strategy.filter} : EncodedUnder(f) = encoded

\* tab, "#V#", "a" has been encoded under Strip + Extensions, and the other
\* two filters give the same string
FiltersAgreeOnCleanWitness ==
    /\ pc = "encoded"
    /\ strategy = [kind |-> "Extensions", filter |-> "Strip"]
    /\ input = <<9, 35, 86, 35, 97>>
    /\ encoded.ok
    /\ Len(indices) = 3
    /\ EncodedUnder("Strict") = encoded
    /\ EncodedUnder("Sanitize") = encoded

====
